---- MODULE Spec2Model ----
(***************************************************************************)
(* Model of the resilient bulk event-retrieval engine of tempo-analytics:  *)
(*   server/retry.ts  withRpcRetry (classification, backoff, 20 attempts)  *)
(*   server/logs.ts   getLogsChunked (chunking, p-limit(4), suggested      *)
(*                    range retry, midpoint split, deduplication)          *)
(* The event loop runs one macrotask at a time: an action is the answer of *)
(* one upstream call or the firing of one backoff timer, together with     *)
(* every promise continuation that runs before the next macrotask.         *)
(***************************************************************************)
EXTENDS Integers, Sequences, FiniteSets, TLC

(***************************************************************************)
(* Program constants.                                                      *)
(***************************************************************************)
MaxAttempts == 20
BackoffCapMs == 10000
BackoffBaseMs == 200
BackoffMaxExp == 6
Concurrency == 4
minChunk == 200
chunk == 5000
CacheMax == 500
\* sampleDelta = 2000n, in blockRangeForWindow
SampleDelta == 2000
\* the floor 0.2 of avgSecondsPerBlock, as the fraction 1/5
AvgFloorNum == 1
AvgFloorDen == 5
\* sampleDelta = 2000n and the floor 0.2, in getTimeModel
TmSampleDelta == 2000
TmAvgFloorNum == 1
TmAvgFloorDen == 5
\* cacheSet(cacheKey, out, 30 * 1000), in getTimeModel
TimeModelTtlMs == 30000
\* cacheSet(cacheKey, ts, 10 * 60 * 1000), in getBlockTimestampSeconds
BlockTsTtlMs == 600000
\* const WARM_TIMEOUT_MS = 2 * 60 * 1000
WARM_TIMEOUT_MS == 120000
\* const CACHE_WARM_INTERVAL_MS = 3 * 60 * 1000
CACHE_WARM_INTERVAL_MS == 180000
\* const DASHBOARD_WINDOW = 3600
DASHBOARD_WINDOW == 3600
\* cacheSet(cacheKey, out, 2 * 60 * 1000), in buildDashboard
DashboardTtlMs == 120000
\* cacheSet(cacheKey, filtered, 30 * 60 * 1000), in fetchTokenlist
TokenlistTtlMs == 1800000
\* cacheSet(cacheKey, out, 5 * 60 * 1000), in getFeeAmmSummary
FeeAmmTtlMs == 300000
\* cacheSet(cacheKey, result, 2 * 60 * 1000), in getSponsorshipData
SponsorshipTtlMs == 120000
\* uniqueTxHashes ... .slice(0, 100), in getSponsorshipData
TxLookupLimit == 100
\* const CLEANUP_INTERVAL_MS = 5 * 60 * 1000
CLEANUP_INTERVAL_MS == 300000
\* what a call returns for "no value": undefined
Undefined == -1

(***************************************************************************)
(* Bounds of the model.                                                    *)
(***************************************************************************)
\* tasks (chunks, split halves, suggested-range retries) one invocation creates
MaxTasks == 9
\* answers carrying a provider-suggested range, per invocation
MaxSuggested == 1
\* upstream calls of one invocation answered with a non-retryable failure
\* that neither suggests a range nor reports too many results
MaxFatal == 1
\* chunk tasks of one invocation that the provider answers with retryable failures
MaxRetryingTasks == 1
\* longest record list fed to the deduplication step on its own
MaxListLen == 3
\* cacheGet and cacheSet calls of one modelled run of the cache
MaxCacheOps == 2
\* latest clock value, in ms, of one modelled run of the cache
MaxNow == 20
\* latest clock value, in ms, of one modelled run of the getTimeModel callers
MaxSharedNow == 40001

\* objects callers build in a modelled run
MaxObjects == 2
\* latest clock value, in ms, of one modelled run of the server
MaxWarmNow == 300000
\* disturbances of a modelled run: an HTTP request received, a request
\* refused, a request answered before an older one, a time the provider
\* lets requests wait over timer deadlines
MaxDisturbances == 1
\* fee payments, each of its own transaction, in the logs of a
\* getLogsChunked call that finds any
FeePaymentsFound == 2
\* the head block number when the server starts, and the ms between blocks
WarmHead0 == 100000
BlockMs == 1000

Min(a, b) == IF a < b THEN a ELSE b
Max(a, b) == IF a > b THEN a ELSE b

RECURSIVE Pow2(_)
Pow2(n) == IF n = 0 THEN 1 ELSE 2 * Pow2(n - 1)

(***************************************************************************)
(* Failures.  A failure is its message, kept as the set of signatures the  *)
(* message contains plus the numbers the two parsers read out of it:       *)
(*   "try again in <after>ms"  and  "retry with the range <rfrom>-<rto>".  *)
(* -1 stands for a pattern that does not match.  id tells apart the error  *)
(* objects of the successive invocations inside one withRpcRetry call.     *)
(***************************************************************************)
RateLimitSignatures == {"Status: 429", "rate limited", "\"code\":-32005"}
TransientSignatures ==
    {"Status: 500", "Status: 502", "Status: 503", "Status: 504", "Status: 520",
     "Status: 522", "Status: 524", "fetch failed", "socket hang up", "econnreset"}
TooLargeSignature == "query exceeds max results"

Failure(sigs, after, rfrom, rto) ==
    [sigs |-> sigs, after |-> after, rfrom |-> rfrom, rto |-> rto, id |-> 0]
NoFailure == Failure({"<no failure>"}, -1, -1, -1)

isRateLimitError(err) == err.sigs \cap RateLimitSignatures # {}

isTransientRpcError(err) == err.sigs \cap TransientSignatures # {}

\* undefined is modelled as -1
parseRetryAfterMs(err) == err.after

\* undefined is modelled as <<>>
parseRetryRange(err) == IF err.rfrom < 0 THEN <<>> ELSE <<err.rfrom, err.rto>>

\* if (!isRateLimitError(err) && !isTransientRpcError(err)) throw err
IsRetryable_Always(err) == TRUE
IsRetryable(err) == isRateLimitError(err) \/ isTransientRpcError(err)

\* for (let attempt = 0; attempt < 20; attempt++): after attempt++ the loop
\* goes on while the new attempt number is below 20
LoopContinues_OffByOne(attempt) == attempt <= MaxAttempts
LoopContinues(attempt) == attempt < MaxAttempts

Backoff_NoCap(attempt) == BackoffBaseMs * Pow2(Min(BackoffMaxExp, attempt))
Backoff(attempt) == Min(BackoffCapMs, BackoffBaseMs * Pow2(Min(BackoffMaxExp, attempt)))

\* Math.max(retryAfter ?? 0, backoff)
SleepMs(err, attempt) ==
    Max(IF parseRetryAfterMs(err) < 0 THEN 0 ELSE parseRetryAfterMs(err), Backoff(attempt))

\* the failures the modelled provider answers with
FailRate == Failure({"Status: 429"}, -1, -1, -1)
FailRateWait == Failure({"rate limited"}, 30000, -1, -1)
FailTransient == Failure({"Status: 503"}, -1, -1, -1)
FailFatal == Failure({"execution reverted"}, -1, -1, -1)
FailTooLarge == Failure({TooLargeSignature}, -1, -1, -1)
FailSuggest(a, b) == Failure({"retry with the range"}, -1, a, b)
\* messages that carry a suggested range next to another signature
FailSuggestTooLarge(a, b) == Failure({"retry with the range", TooLargeSignature}, -1, a, b)
FailSuggestRate(a, b) == Failure({"retry with the range", "Status: 429"}, -1, a, b)
\* the failure of the http transport when a request exceeds timeout: 30_000
\* (the client library's TimeoutError and its message)
TimeoutSignatures == {"The request took too long to respond.", "The request timed out."}
FailTimeout == Failure(TimeoutSignatures, -1, -1, -1)

(***************************************************************************)
(* Records and the deduplication step of getLogsChunked.                   *)
(***************************************************************************)
Rec(tx, idx, bn) == [transactionHash |-> tx, logIndex |-> idx, blockNumber |-> bn]

\* `${l.transactionHash}:${l.logIndex}`
Key(l) == l.transactionHash \o ":" \o ToString(l.logIndex)

RECURSIVE DedupFrom(_, _, _)
DedupFrom(list, i, seen) ==
    IF i > Len(list) THEN <<>>
    ELSE IF Key(list[i]) \in seen THEN DedupFrom(list, i + 1, seen)
    ELSE <<list[i]>> \o DedupFrom(list, i + 1, seen \cup {Key(list[i])})

Dedup_Toggle(list) ==
    LET RECURSIVE F(_, _)
        F(i, seen) ==
            IF i > Len(list) THEN <<>>
            ELSE IF Key(list[i]) \in seen THEN F(i + 1, seen \ {Key(list[i])})
            ELSE <<list[i]>> \o F(i + 1, seen \cup {Key(list[i])})
    IN F(1, {})
Dedup_KeepLast(list) ==
    LET RECURSIVE F(_)
        F(i) ==
            IF i > Len(list) THEN <<>>
            ELSE IF \E j \in (i + 1)..Len(list) : Key(list[j]) = Key(list[i]) THEN F(i + 1)
            ELSE <<list[i]>> \o F(i + 1)
    IN F(1)
Dedup(list) == DedupFrom(list, 1, {})

(***************************************************************************)
(* State.                                                                  *)
(*   fromBlock, toBlock : the arguments of the getLogsChunked invocation   *)
(*   tasks       : every fetchRange call made so far, in creation order    *)
(*   queue       : p-limit's FIFO of fetchRange bodies waiting for a slot  *)
(*   activeCount : p-limit's count of bodies that started and not settled  *)
(*   call        : "idle" | "running" | "returned" | "rejected"            *)
(*   output      : the list the invocation returned                        *)
(*   callErr     : the failure the invocation rejected with                *)
(*   provider    : the kind of upstream behind the fetch capability:       *)
(*                 "capped" caps results per call (too-large answers,      *)
(*                 suggested ranges), "flaky" rate-limits, "both" does     *)
(*                 both, "mixed" answers with messages that carry a        *)
(*                 suggested range next to another signature               *)
(***************************************************************************)
VARIABLES fromBlock, toBlock, tasks, queue, activeCount, call, output, callErr,
          provider

chunkVars ==
    <<fromBlock, toBlock, tasks, queue, activeCount, call, output, callErr, provider>>

(***************************************************************************)
(* State of one withRpcRetry call taken on its own.                        *)
(*   rPc      : "idle" | "call" (fn() pending) | "sleep" | "returned" |    *)
(*              "threw"                                                    *)
(*   rAttempt : the loop variable attempt                                  *)
(*   rLastErr : the local lastErr                                          *)
(*   rCalls   : invocations of fn so far                                   *)
(*   rSleeps  : backoff waits started so far                               *)
(*   rBackoff : the last computed backoff, rWait : the last sleep length   *)
(*   rThrown  : the failure the call threw                                 *)
(***************************************************************************)
VARIABLES rPc, rAttempt, rLastErr, rCalls, rSleeps, rBackoff, rWait, rThrown

retryVars == <<rPc, rAttempt, rLastErr, rCalls, rSleeps, rBackoff, rWait, rThrown>>

(***************************************************************************)
(* The deduplication step of getLogsChunked taken on its own.              *)
(*   dPc : "input" | "once" | "twice", dIn : the list given,               *)
(*   dOnce : the step's result on dIn, dTwice : its result on dOnce        *)
(***************************************************************************)
VARIABLES dPc, dIn, dOnce, dTwice

dedupVars == <<dPc, dIn, dOnce, dTwice>>

(***************************************************************************)
(* The expiring cache of cache.ts.                                         *)
(*   cache : the LRUCache, its entries from least to most recently used;   *)
(*           an entry is its key with the stored {value, expiresAt}        *)
(*   now   : Date.now(), in ms                                             *)
(*   cOps  : cacheGet and cacheSet calls made so far                       *)
(*   cLast : the last operation: its kind, its key, the entry cache.get    *)
(*           found (NoEntry if none), what cacheGet returned, the key the  *)
(*           LRUCache evicted for capacity (0 if none), the entries before *)
(***************************************************************************)
VARIABLES cache, now, cOps, cLast

cacheVars == <<cache, now, cOps, cLast>>

(***************************************************************************)
(* One blockRangeForWindow call.                                           *)
(*   ePc       : "idle" | "head" | "latestTs" | "sampleTs" | "done"        *)
(*               (the await the call is at)                                *)
(*   eWindow   : the argument windowSeconds, eMaxScan : env.maxScanBlocks  *)
(*   eHead     : the head block number the provider answered in this call  *)
(*   eLatest, eLatestTs, eSampleTs : the locals latest, latestTs, sampleTs *)
(*   eOut      : the BlockRange returned                                   *)
(***************************************************************************)
VARIABLES ePc, eWindow, eMaxScan, eHead, eLatest, eLatestTs, eSampleTs, eOut

estVars == <<ePc, eWindow, eMaxScan, eHead, eLatest, eLatestTs, eSampleTs, eOut>>

(***************************************************************************)
(* One getTimeModel call and one applyApproxTimestamps call.               *)
(*   mPc       : "idle" | "head" | "latest" | "sample" | "built" (the call *)
(*               built the model it returned) | "cached" (it returned the  *)
(*               cached one) | "applied"                                   *)
(*   mLatest, mLatestTs, mSampleTs : the locals latestBlock, latest        *)
(*               timestamp and sample timestamp as the provider answered   *)
(*   mModel    : the TimeModel built; avgSecondsPerBlock is kept as the    *)
(*               fraction num/den                                          *)
(*   mItems    : the block numbers of the items given to                   *)
(*               applyApproxTimestamps, mStamps : the timestamps assigned  *)
(***************************************************************************)
VARIABLES mPc, mLatest, mLatestTs, mSampleTs, mModel, mItems, mStamps

tmVars == <<mPc, mLatest, mLatestTs, mSampleTs, mModel, mItems, mStamps>>

restVars == <<cacheVars, estVars, tmVars>>

(***************************************************************************)
(* Callers of getTimeModel sharing the cache (variables cache and now).    *)
(*   gPc     : per caller "idle" | "head" | "latest" | "sample" | "done"   *)
(*   gLoc    : per caller the locals latestBlock, latestTs                 *)
(*   gStart  : per caller the time its call was issued                     *)
(*   gMiss   : per caller whether cacheGet('timeModel') gave undefined     *)
(*   gRet    : per caller the model its call returned                      *)
(*   gHeadQ, gBlockQ : getBlockNumber and getBlock requests sent so far    *)
(***************************************************************************)
VARIABLES gPc, gLoc, gStart, gMiss, gRet, gHeadQ, gBlockQ

sharedVars == <<gPc, gLoc, gStart, gMiss, gRet, gHeadQ, gBlockQ>>

(***************************************************************************)
(* A caller of the cache that keeps and mutates the objects it stores and  *)
(* receives (the cache itself is the variable cache).                      *)
(*   hHeap   : the objects allocated so far, each with its current content *)
(*   hHeld   : the references the caller holds                             *)
(*   hStored : per key the content its object had when cacheSet stored it  *)
(*   hGot    : the last cacheGet: its key and the reference returned       *)
(***************************************************************************)
VARIABLES hHeap, hHeld, hStored, hGot

aliasVars == <<hHeap, hHeld, hStored, hGot>>

(***************************************************************************)
(* The chain blockRangeForWindow and getTimeModel are both asked about.    *)
(*   bHead : the head block number, bLatestTs, bSampleTs : the timestamps  *)
(*   of the head block and of the sample block                             *)
(***************************************************************************)
VARIABLES bHead, bLatestTs, bSampleTs

btVars == <<bHead, bLatestTs, bSampleTs>>

(***************************************************************************)
(* Cache warming of index.ts.                                              *)
(*   isWarming : the module variable                                       *)
(*   wRuns     : the warmCache calls that passed the isWarming test, each  *)
(*               with its start time, its position ("dashboard": awaiting  *)
(*               buildDashboard, "others": awaiting Promise.allSettled,    *)
(*               "finished") and whether its timeout timer is armed        *)
(*   wSkipped  : warmCache calls that returned at the isWarming test       *)
(*   wNow      : the time, in ms since the server started                  *)
(*   wTicks    : firings of the setInterval timer so far                   *)
(*   cacheWarmInterval : the module variable: "null", or the interval      *)
(*               timer "set" by setInterval or "cleared" by clearInterval  *)
(*   wCalls    : the async function calls that have not settled            *)
(*   wReqs     : the requests sent and not yet answered, oldest first      *)
(*   wServed   : HTTP requests received so far                             *)
(*   wSweeps   : firings of the cleanup timer of cache.ts so far           *)
(*   wRefused  : requests the provider has refused so far                  *)
(*   wStalls   : times the provider began to let requests wait over a      *)
(*               timer deadline, wStalling : it is doing so                *)
(*   wOvertakes : requests answered before an older one so far             *)
(***************************************************************************)
VARIABLES isWarming, wRuns, wSkipped, wNow, wTicks, cacheWarmInterval,
          wCalls, wReqs, wServed, wSweeps, wRefused, wStalls, wStalling, wOvertakes

warmVars ==
    <<isWarming, wRuns, wSkipped, wNow, wTicks, cacheWarmInterval,
      wCalls, wReqs, wServed, wSweeps, wRefused, wStalls, wStalling,
      wOvertakes>>

moreVars == <<sharedVars, aliasVars, btVars, warmVars>>

vars == <<chunkVars, retryVars, dedupVars, restVars, moreVars>>

\* st: "queued" (in p-limit's queue), "call" (upstream call in flight),
\*     "sleep" (backoff wait), "waitRetry" (awaiting the suggested-range
\*     fetchRange), "waitSplit" (awaiting both halves), "done", "failed"
\* attempt, lastErr: the locals of the task's withRpcRetry while it runs
\* rpc: how the task's withRpcRetry ended: "pending", "ok" (returned records),
\*      "threw" (rethrew a non-retryable failure), "exhausted" (fell out of
\*      the loop); retried: it slept at least once
\* caught: the failure the catch block of fetchRange was entered with
NewTask(start, end, parent) ==
    [start |-> start, end |-> end, parent |-> parent, st |-> "queued",
     attempt |-> 0, lastErr |-> NoFailure, retried |-> FALSE, rpc |-> "pending",
     recs |-> <<>>, err |-> NoFailure, kids |-> <<>>, caught |-> NoFailure]

State(t, q, a, c, o, e) ==
    [tasks |-> t, queue |-> q, active |-> a, call |-> c, output |-> o, err |-> e]

\* p-limit: a body starts only while fewer than `concurrency` bodies are active
HasFreeSlot_Unlimited(active) == TRUE
HasFreeSlot(active) == active < Concurrency

\* p-limit run(): activeCount++, then the body runs up to its first await:
\* withRpcRetry's attempt 0 issues the upstream call
StartTask(s, t) ==
    [s EXCEPT !.tasks[t].st = "call", !.active = s.active + 1]

\* limit(fn): the body is queued and started at once if a slot is free
Enqueue(s, task) ==
    LET id == Len(s.tasks) + 1
        s1 == [s EXCEPT !.tasks = Append(s.tasks, task)]
    IN IF HasFreeSlot(s.active) /\ s.queue = <<>>
       THEN StartTask(s1, id)
       ELSE [s1 EXCEPT !.queue = Append(s.queue, id)]

\* p-limit next(): activeCount--, then the head of the queue starts
Release_Leak(s) ==
    IF s.queue # <<>>
    THEN StartTask([s EXCEPT !.queue = Tail(s.queue)], Head(s.queue))
    ELSE s
Release(s) ==
    LET s1 == [s EXCEPT !.active = s.active - 1]
    IN IF s1.queue # <<>>
       THEN StartTask([s1 EXCEPT !.queue = Tail(s1.queue)], Head(s1.queue))
       ELSE s1

TopTasks(ts) == {t \in 1..Len(ts) : ts[t].parent = 0}

RECURSIVE ConcatTop(_, _)
ConcatTop(ts, i) ==
    IF i > Len(ts) THEN <<>>
    ELSE IF ts[i].parent = 0 THEN ts[i].recs \o ConcatTop(ts, i + 1)
    ELSE ConcatTop(ts, i + 1)

\* the outer Promise.all of getLogsChunked: rejects with the first rejection,
\* resolves when every initial chunk resolved; then results are concatenated
\* in range order and deduplicated
TopSettled_IgnoreFailure(s, err) ==
    IF s.call # "running" THEN s
    ELSE IF \A t \in TopTasks(s.tasks) : s.tasks[t].st \in {"done", "failed"}
         THEN [s EXCEPT !.call = "returned", !.output = Dedup(ConcatTop(s.tasks, 1))]
         ELSE s
TopSettled(s, err) ==
    IF s.call # "running" THEN s
    ELSE IF err # NoFailure THEN [s EXCEPT !.call = "rejected", !.err = err]
    ELSE IF \A t \in TopTasks(s.tasks) : s.tasks[t].st = "done"
         THEN [s EXCEPT !.call = "returned", !.output = Dedup(ConcatTop(s.tasks, 1))]
         ELSE s

\* the body of fetchRange(t) settles: with recs when err = NoFailure, else with
\* err.  Its slot is released and the promise awaiting it continues.
RECURSIVE Settle(_, _, _, _)
Settle(s, t, recs, err) ==
    LET ok == err = NoFailure
        s1 == [s EXCEPT !.tasks[t].st = IF ok THEN "done" ELSE "failed",
                        !.tasks[t].recs = recs,
                        !.tasks[t].err = err]
        s2 == Release(s1)
        p  == s.tasks[t].parent
    IN IF p = 0 THEN TopSettled(s2, err)
       ELSE IF s2.tasks[p].st = "waitRetry" THEN Settle(s2, p, recs, err)
       ELSE IF s2.tasks[p].st = "waitSplit"
            THEN IF ~ok THEN Settle(s2, p, <<>>, err)
                 ELSE LET l == s2.tasks[p].kids[1]
                          r == s2.tasks[p].kids[2]
                      IN IF s2.tasks[l].st = "done" /\ s2.tasks[r].st = "done"
                         THEN Settle(s2, p, s2.tasks[l].recs \o s2.tasks[r].recs, NoFailure)
                         ELSE s2
       ELSE s2

\* const mid = start + size / 2n
Mid_End(start, end) == end
Mid(start, end) == start + (end - start + 1) \div 2

\* if (size <= minChunk) throw err
AtFloor_Never(start, end) == FALSE
AtFloor(start, end) == end - start + 1 <= minChunk

\* the catch block of fetchRange, entered with the failure withRpcRetry threw
Catch(s0, t, err) ==
    LET s     == [s0 EXCEPT !.tasks[t].caught = err]
        start == s.tasks[t].start
        end   == s.tasks[t].end
        retry == parseRetryRange(err)
        id    == Len(s.tasks) + 1
    IN IF retry # <<>>
       THEN Enqueue([s EXCEPT !.tasks[t].st = "waitRetry", !.tasks[t].kids = <<id>>],
                    NewTask(retry[1], retry[2], t))
       ELSE IF TooLargeSignature \in err.sigs
            THEN IF AtFloor(start, end) THEN Settle(s, t, <<>>, err)
                 ELSE Enqueue(
                        Enqueue([s EXCEPT !.tasks[t].st = "waitSplit",
                                          !.tasks[t].kids = <<id, id + 1>>],
                                NewTask(start, Mid(start, end), t)),
                        NewTask(Mid(start, end) + 1, end, t))
       ELSE Settle(s, t, <<>>, err)

RECURSIVE InitialRanges(_, _)

\* for (let start = fromBlock; start <= toBlock; start += chunk)
InitialRanges_NoClamp(start, to) ==
    IF start > to THEN <<>>
    ELSE <<<<start, start + chunk - 1>>>> \o InitialRanges(start + chunk, to)
InitialRanges(start, to) ==
    IF start > to THEN <<>>
    ELSE <<<<start, Min(start + chunk - 1, to)>>>> \o InitialRanges(start + chunk, to)

RECURSIVE EnqueueAll(_, _, _)
EnqueueAll(s, ranges, i) ==
    IF i > Len(ranges) THEN s
    ELSE EnqueueAll(Enqueue(s, NewTask(ranges[i][1], ranges[i][2], 0)), ranges, i + 1)

Current == State(tasks, queue, activeCount, call, output, callErr)

Becomes(s) ==
    /\ tasks' = s.tasks
    /\ queue' = s.queue
    /\ activeCount' = s.active
    /\ call' = s.call
    /\ output' = s.output
    /\ callErr' = s.err
    /\ UNCHANGED <<fromBlock, toBlock, provider>>
    /\ UNCHANGED <<retryVars, dedupVars, restVars, moreVars>>

(***************************************************************************)
(* The provider, within the bounds of the model.                           *)
(***************************************************************************)
Ranges == {<<5, 4>>, <<0, 199>>, <<0, 400>>, <<100, 5099>>, <<0, 20000>>}

OkAnswers(start, end) ==
    {<<Rec("0xaa", 0, start), Rec("0xbb", 1, end)>>}
        \cup (IF end - start + 1 <= minChunk THEN {<<>>} ELSE {})

Suggestions(start, end) == { <<start, start + (end - start) \div 2>> }

\* invocations modelled: every range against a capped and against a flaky
\* provider, the single-chunk ranges also against one that is both and
\* against one whose messages mix a suggested range with another signature
Inputs ==
    (Ranges \X {"capped", "flaky"})
        \cup ({r \in Ranges : r[2] - r[1] <= 2 * minChunk} \X {"both", "mixed"})

ProviderFailures(start, end) ==
    (IF provider \in {"capped", "both"} THEN {FailFatal} ELSE {})
        \cup (IF provider \in {"flaky", "both"} THEN {FailRate} ELSE {})
        \cup (IF provider \in {"capped", "both"}
              THEN {FailTooLarge}
                     \cup {FailSuggest(r[1], r[2]) : r \in Suggestions(start, end)}
              ELSE {})
        \cup (IF provider = "mixed"
              THEN {FailTooLarge}
                     \cup {FailSuggestTooLarge(r[1], r[2]) : r \in Suggestions(start, end)}
                     \cup {FailSuggestRate(r[1], r[2]) : r \in Suggestions(start, end)}
              ELSE {})

TasksWithKids(n) == {u \in 1..Len(tasks) : Len(tasks[u].kids) = n}

\* tasks a failure makes fetchRange create
Spawned(t, err) ==
    IF parseRetryRange(err) # <<>> THEN 1
    ELSE IF TooLargeSignature \in err.sigs /\ ~AtFloor(tasks[t].start, tasks[t].end) THEN 2
    ELSE 0

WithinBounds(t, err) ==
    /\ Len(tasks) + Spawned(t, err) <= MaxTasks
    /\ parseRetryRange(err) # <<>> => Cardinality(TasksWithKids(1)) < MaxSuggested
    /\ err = FailFatal =>
         Cardinality({u \in 1..Len(tasks) : tasks[u].err = FailFatal /\ tasks[u].rpc = "threw"})
             < MaxFatal
    /\ IsRetryable(err) =>
         \/ tasks[t].retried
         \/ Cardinality({u \in 1..Len(tasks) : tasks[u].retried}) < MaxRetryingTasks

(***************************************************************************)
(* Actions of one getLogsChunked invocation.                               *)
(***************************************************************************)
ChunkInit ==
    /\ \E i \in Inputs : fromBlock = i[1][1] /\ toBlock = i[1][2] /\ provider = i[2]
    /\ tasks = <<>>
    /\ queue = <<>>
    /\ activeCount = 0
    /\ call = "idle"
    /\ output = <<>>
    /\ callErr = NoFailure

\* getLogsChunked is called: the chunk list is built and every chunk is
\* handed to the limiter; with no chunk Promise.all resolves at once
Invoke ==
    /\ call = "idle"
    /\ LET s0 == [Current EXCEPT !.call = "running"]
           s1 == EnqueueAll(s0, InitialRanges(fromBlock, toBlock), 1)
       IN Becomes(TopSettled(s1, NoFailure))

\* an upstream call resolves: withRpcRetry returns its records
FetchResolves ==
    \E t \in 1..Len(tasks) :
        /\ tasks[t].st = "call"
        /\ \E recs \in OkAnswers(tasks[t].start, tasks[t].end) :
             Becomes(Settle([Current EXCEPT !.tasks[t].rpc = "ok",
                                               !.tasks[t].attempt = 0,
                                               !.tasks[t].lastErr = NoFailure],
                            t, recs, NoFailure))

\* an upstream call rejects: withRpcRetry either rethrows at once or sleeps
FetchRejects ==
    \E t \in 1..Len(tasks) :
        /\ tasks[t].st = "call"
        /\ \E err \in ProviderFailures(tasks[t].start, tasks[t].end) :
             /\ WithinBounds(t, err)
             /\ IF IsRetryable(err)
                THEN Becomes([Current EXCEPT !.tasks[t].st = "sleep",
                                             !.tasks[t].lastErr = err,
                                             !.tasks[t].retried = TRUE])
                ELSE Becomes(Catch([Current EXCEPT !.tasks[t].rpc = "threw",
                                                   !.tasks[t].attempt = 0,
                                                   !.tasks[t].lastErr = NoFailure],
                                   t, err))

\* a backoff timer fires: the loop goes on to its next attempt, or falls out
\* of the loop and throws lastErr
BackoffElapses ==
    \E t \in 1..Len(tasks) :
        /\ tasks[t].st = "sleep"
        /\ IF LoopContinues(tasks[t].attempt + 1)
           THEN Becomes([Current EXCEPT !.tasks[t].st = "call",
                                        !.tasks[t].attempt = tasks[t].attempt + 1])
           ELSE Becomes(Catch([Current EXCEPT !.tasks[t].rpc = "exhausted",
                                              !.tasks[t].attempt = 0,
                                              !.tasks[t].lastErr = NoFailure],
                              t, tasks[t].lastErr))

ChunkIdle ==
    /\ fromBlock = 0 /\ toBlock = 0 /\ provider = "capped"
    /\ tasks = <<>> /\ queue = <<>> /\ activeCount = 0
    /\ call = "idle" /\ output = <<>> /\ callErr = NoFailure

(***************************************************************************)
(* withRpcRetry on its own, around an arbitrary operation fn.              *)
(***************************************************************************)
RetryFailures ==
    {FailRate, FailRateWait, FailTransient, FailFatal, FailTooLarge, FailSuggest(0, 99),
     FailTimeout}

RetryInit ==
    /\ rPc = "idle" /\ rAttempt = 0 /\ rLastErr = NoFailure /\ rCalls = 0
    /\ rSleeps = 0 /\ rBackoff = 0 /\ rWait = 0 /\ rThrown = NoFailure

\* withRpcRetry(fn) is called: attempt = 0 and fn() is invoked
RetryInvoke ==
    /\ rPc = "idle"
    /\ rPc' = "call" /\ rCalls' = 1
    /\ UNCHANGED <<rAttempt, rLastErr, rSleeps, rBackoff, rWait, rThrown>>
    /\ UNCHANGED <<chunkVars, dedupVars, restVars, moreVars>>

\* return await fn()
FnResolves ==
    /\ rPc = "call"
    /\ rPc' = "returned"
    /\ UNCHANGED <<rAttempt, rLastErr, rCalls, rSleeps, rBackoff, rWait, rThrown>>
    /\ UNCHANGED <<chunkVars, dedupVars, restVars, moreVars>>

\* the catch block: lastErr = err, then rethrow or sleep
FnRejects ==
    /\ rPc = "call"
    /\ \E f \in RetryFailures :
         LET err == [f EXCEPT !.id = rCalls]
         IN /\ rLastErr' = err
            /\ IF ~IsRetryable(err)
               THEN /\ rPc' = "threw" /\ rThrown' = err
                    /\ UNCHANGED <<rSleeps, rBackoff, rWait>>
               ELSE /\ rPc' = "sleep" /\ rSleeps' = rSleeps + 1
                    /\ rBackoff' = Backoff(rAttempt)
                    /\ rWait' = SleepMs(err, rAttempt)
                    /\ UNCHANGED rThrown
    /\ UNCHANGED <<rAttempt, rCalls>>
    /\ UNCHANGED <<chunkVars, dedupVars, restVars, moreVars>>

\* the sleep ends: attempt++, then the next invocation or throw lastErr
SleepElapses ==
    /\ rPc = "sleep"
    /\ rAttempt' = rAttempt + 1
    /\ IF LoopContinues(rAttempt + 1)
       THEN rPc' = "call" /\ rCalls' = rCalls + 1 /\ UNCHANGED rThrown
       ELSE rPc' = "threw" /\ rThrown' = rLastErr /\ UNCHANGED rCalls
    /\ UNCHANGED <<rLastErr, rSleeps, rBackoff, rWait>>
    /\ UNCHANGED <<chunkVars, dedupVars, restVars, moreVars>>

(***************************************************************************)
(* The deduplication step on its own, on every list up to MaxListLen.      *)
(***************************************************************************)
Logs ==
    {Rec("0xa", 11, 1), Rec("0xa", 11, 2), Rec("0xa1", 1, 3), Rec("0xb", 0, 4)}

Lists == UNION {[1..n -> Logs] : n \in 0..MaxListLen}

DedupInit == dPc = "input" /\ dIn \in Lists /\ dOnce = <<>> /\ dTwice = <<>>

DedupIdle == dPc = "input" /\ dIn = <<>> /\ dOnce = <<>> /\ dTwice = <<>>

DedupOnce ==
    /\ dPc = "input"
    /\ dPc' = "once" /\ dOnce' = Dedup(dIn)
    /\ UNCHANGED <<dIn, dTwice>>
    /\ UNCHANGED <<chunkVars, retryVars, restVars, moreVars>>

DedupTwice ==
    /\ dPc = "once"
    /\ dPc' = "twice" /\ dTwice' = Dedup(dOnce)
    /\ UNCHANGED <<dIn, dOnce>>
    /\ UNCHANGED <<chunkVars, retryVars, restVars, moreVars>>

(***************************************************************************)
(* The expiring cache: an LRUCache of at most CacheMax entries, from least *)
(* to most recently used.  get and set make their entry the most recently  *)
(* used one; set of a new key into a full cache evicts the least recently  *)
(* used one.                                                               *)
(***************************************************************************)
Entry(k, v, e) == [key |-> k, value |-> v, expiresAt |-> e]

NoEntry == Entry(0, Undefined, 0)

Keys(c) == {c[i].key : i \in 1..Len(c)}

IndexOf(c, k) ==
    LET at == {i \in 1..Len(c) : c[i].key = k}
    IN IF at = {} THEN 0 ELSE CHOOSE i \in at : TRUE

Without(c, i) == SubSeq(c, 1, i - 1) \o SubSeq(c, i + 1, Len(c))

\* what cache.get(key) returns
LruFind(c, k) == LET i == IndexOf(c, k) IN IF i = 0 THEN NoEntry ELSE c[i]

\* what cache.get(key) does to the recency order
LruGet(c, k) ==
    LET i == IndexOf(c, k) IN IF i = 0 THEN c ELSE Without(c, i) \o <<c[i]>>

\* cache.delete(key)
LruDelete(c, k) == LET i == IndexOf(c, k) IN IF i = 0 THEN c ELSE Without(c, i)

\* max: 500
IsFull(c) == Len(c) >= CacheMax

\* the entry the LRUCache drops to make room
EvictOne_ExpiredFirst(c) ==
    IF \E i \in 1..Len(c) : now > c[i].expiresAt
    THEN Without(c, CHOOSE i \in 1..Len(c) :
                        /\ now > c[i].expiresAt
                        /\ \A j \in 1..(i - 1) : ~(now > c[j].expiresAt))
    ELSE Tail(c)
EvictOne(c) == Tail(c)

\* cache.set(key, entry)
LruSet(c, e) ==
    LET i == IndexOf(c, e.key)
    IN IF i # 0 THEN Without(c, i) \o <<e>>
       ELSE IF IsFull(c) THEN EvictOne(c) \o <<e>>
       ELSE c \o <<e>>

\* Date.now() > hit.expiresAt
IsExpired_Never(e, t) == FALSE
IsExpired(e, t) == t > e.expiresAt

\* now > value.expiresAt, in cleanupExpiredEntries
IsStale(e, t) == t > e.expiresAt

\* for (const [key, value] of cache.entries()) if (...) cache.delete(key)
DeleteStale_FirstOnly(c, t) ==
    LET stale == {i \in 1..Len(c) : IsStale(c[i], t)}
    IN IF stale = {} THEN c
       ELSE Without(c, CHOOSE i \in stale : \A j \in stale : i <= j)
DeleteStale(c, t) == SelectSeq(c, LAMBDA e : ~IsStale(e, t))

\* cacheGet(key) at time t on the cache c: whether it returns a stored value
\* (hit), the value, and the cache as the call leaves it (a live entry is
\* now the most recently used one, an expired one is deleted)
cacheGet(c, k, t) ==
    LET i    == IndexOf(c, k)
        live == i # 0 /\ ~IsExpired(c[i], t)
    IN [hit   |-> live,
        value |-> IF live THEN c[i].value ELSE Undefined,
        cache |-> IF i # 0 /\ ~live THEN LruDelete(LruGet(c, k), k) ELSE LruGet(c, k)]

\* cacheSet(key, value, ttlMs) at time t on the cache c
cacheSet(c, k, v, ttlMs, t) == LruSet(c, Entry(k, v, t + ttlMs))

Last(op, k, found, ret, c, c2) ==
    [op |-> op, key |-> k, found |-> found, ret |-> ret,
     evicted |-> Keys(c) \ Keys(c2), before |-> Len(c),
     lru |-> IF c = <<>> THEN NoEntry ELSE Head(c)]

NoLast == Last("none", 0, NoEntry, Undefined, <<>>, <<>>)

\* the caches the modelled runs start from: the empty one, and one that
\* CacheMax - 1 earlier cacheSet calls have filled up to one free place;
\* its least recently used entry lives long, the others expire soon
Prefilled(n) ==
    [i \in 1..n |-> Entry(i, i, IF i = 1 THEN 1000 ELSE IF i % 2 = 0 THEN 10 ELSE 30)]

CacheKeys == {1, CacheMax, CacheMax + 1}

Ttls == {10, 30}

Delays == {10, 20}

FreshValue == 1000 + cOps

CacheIdle == cache = <<>> /\ now = 0 /\ cOps = 0 /\ cLast = NoLast

CacheInit ==
    /\ cache \in {<<>>, Prefilled(CacheMax - 1)}
    /\ now = 0 /\ cOps = 0 /\ cLast = NoLast

\* cacheSet(key, value, ttlMs)
CacheSet ==
    /\ cOps < MaxCacheOps
    /\ \E k \in CacheKeys, ttlMs \in Ttls :
         LET c2 == LruSet(cache, Entry(k, FreshValue, now + ttlMs))
         IN /\ cache' = c2
            /\ cLast' = Last("set", k, LruFind(cache, k), Undefined, cache, c2)
    /\ cOps' = cOps + 1
    /\ UNCHANGED now
    /\ UNCHANGED <<chunkVars, retryVars, dedupVars, estVars, tmVars, moreVars>>

\* cacheGet(key)
CacheGet ==
    /\ cOps < MaxCacheOps
    /\ \E k \in CacheKeys :
         LET hit == LruFind(cache, k)
             c1  == LruGet(cache, k)
             c2  == IF hit # NoEntry /\ IsExpired(hit, now) THEN LruDelete(c1, k) ELSE c1
             ret == IF hit = NoEntry \/ IsExpired(hit, now) THEN Undefined ELSE hit.value
         IN /\ cache' = c2
            /\ cLast' = Last("get", k, hit, ret, cache, c2)
    /\ cOps' = cOps + 1
    /\ UNCHANGED now
    /\ UNCHANGED <<chunkVars, retryVars, dedupVars, estVars, tmVars, moreVars>>

\* the interval timer runs cleanupExpiredEntries
Sweep ==
    /\ cLast.op # "sweep"
    /\ LET c2 == DeleteStale(cache, now)
       IN /\ cache' = c2
          /\ cLast' = Last("sweep", 0, NoEntry, Undefined, cache, c2)
    /\ UNCHANGED <<now, cOps>>
    /\ UNCHANGED <<chunkVars, retryVars, dedupVars, estVars, tmVars, moreVars>>

\* time passes
Tick ==
    /\ \E d \in Delays :
         /\ now + d <= MaxNow
         /\ now' = now + d
    /\ cLast' = Last("tick", 0, NoEntry, Undefined, cache, cache)
    /\ UNCHANGED <<cache, cOps>>
    /\ UNCHANGED <<chunkVars, retryVars, dedupVars, estVars, tmVars, moreVars>>

EstIdle ==
    /\ ePc = "idle" /\ eWindow = 0 /\ eMaxScan = 0 /\ eHead = 0 /\ eLatest = 0
    /\ eLatestTs = 0 /\ eSampleTs = 0 /\ eOut = <<>>

TmIdle ==
    /\ mPc = "idle" /\ mLatest = 0 /\ mLatestTs = 0 /\ mSampleTs = 0
    /\ mModel = <<>> /\ mItems = <<>> /\ mStamps = <<>>

RestIdle == CacheIdle /\ EstIdle /\ TmIdle

AliasIdle == hHeap = <<>> /\ hHeld = {} /\ hStored = <<>> /\ hGot = <<>>

BtIdle == bHead = 0 /\ bLatestTs = 0 /\ bSampleTs = 0

WarmIdle ==
    /\ isWarming = FALSE /\ wRuns = <<>> /\ wSkipped = 0 /\ wNow = 0 /\ wTicks = 0
    /\ cacheWarmInterval = "null"
    /\ wCalls = <<>> /\ wReqs = <<>> /\ wServed = 0 /\ wSweeps = 0
    /\ wRefused = 0 /\ wStalls = 0 /\ wStalling = FALSE /\ wOvertakes = 0

(***************************************************************************)
(* Block time as a number of seconds per block.  The code computes it as a *)
(* double; the model keeps the two integers the double is the quotient of, *)
(* <<num, den>> with den > 0, and does the code's division,                *)
(* multiplication, Math.ceil and Math.round on the double num / den.       *)
(***************************************************************************)
Frac(n, d) == <<n, d>>

\* Math.max(a, b) on fractions
FracMax(a, b) == IF a[1] * b[2] >= b[1] * a[2] THEN a ELSE b

FracGeq(a, b) == a[1] * b[2] >= b[1] * a[2]

(***************************************************************************)
(* The numbers of the program are IEEE 754 doubles.  A fraction <<n, d>>   *)
(* of the model stands for the double nearest to n / d, the result of the  *)
(* program's division of the two integers.  The operators below compute    *)
(* the program's division, multiplication, Math.ceil and Math.round on     *)
(* doubles bit by bit: a positive double is [m, e] with value m * 2^e, m a *)
(* 53-bit mantissa (2^52 <= m < 2^53) held as two limbs <<hi, lo>> of 27   *)
(* bits.  Results are rounded to nearest, ties to even.  Integer results   *)
(* are below 2^31.                                                         *)
(***************************************************************************)
LimbBase == Pow2(27)

HalfLimb == Pow2(26)

Big(n) == <<n \div LimbBase, n % LimbBase>>

BigZero == <<0, 0>>

BigTwice(r) == <<2 * r[1] + (2 * r[2]) \div LimbBase, (2 * r[2]) % LimbBase>>

BigGeq(a, b) == a[1] > b[1] \/ (a[1] = b[1] /\ a[2] >= b[2])

BigSub(a, b) ==
    IF a[2] >= b[2] THEN <<a[1] - b[1], a[2] - b[2]>>
    ELSE <<a[1] - b[1] - 1, a[2] - b[2] + LimbBase>>

BigInc(m) == IF m[2] + 1 = LimbBase THEN <<m[1] + 1, 0>> ELSE <<m[1], m[2] + 1>>

BigHalf(m) == <<m[1] \div 2, (m[1] % 2) * HalfLimb + m[2] \div 2>>

BigToInt(m) == m[1] * LimbBase + m[2]

RECURSIVE BitLen(_)
BitLen(n) == IF n = 0 THEN 0 ELSE 1 + BitLen(n \div 2)

\* a loop of at most n rounds: F is applied to x until Done holds
RECURSIVE Iterate(_, _, _, _)
Iterate(F(_), Done(_), n, x) ==
    IF Done(x) THEN x
    ELSE IF n = 1 THEN F(x)
    ELSE LET y == Iterate(F, Done, n \div 2, x)
         IN IF Done(y) THEN y ELSE Iterate(F, Done, n - n \div 2, y)

\* one step of the long division r / D (r < D): the next bit of the quotient
\* goes into m until m holds 53 significant bits (c counts them, z counts
\* the zero bits before the first 1); the step after that sets the next
\* bit g and whether anything is left below it (s), and the division is
\* over (c = 54)
QuotientStep(st, D) ==
    LET r2 == BigTwice(st.r)
        b  == BigGeq(r2, D)
        r1 == IF b THEN BigSub(r2, D) ELSE r2
    IN IF st.c = 53 THEN [st EXCEPT !.g = b, !.s = r1 # BigZero, !.c = 54]
       ELSE IF st.c = 0 /\ ~b THEN [st EXCEPT !.r = r1, !.z = st.z + 1]
       ELSE [st EXCEPT !.r = r1, !.c = st.c + 1,
                       !.m = IF b THEN BigInc(BigTwice(st.m)) ELSE BigTwice(st.m)]

\* at most 53 zero bits, 53 significant bits and one more
QuotientBits(r, D, m, c) ==
    Iterate(LAMBDA st : QuotientStep(st, D), LAMBDA st : st.c = 54, 107,
            [r |-> r, m |-> m, c |-> c, z |-> 0, g |-> FALSE, s |-> FALSE])

\* round to nearest, ties to even
RoundEven(m, e, g, s) ==
    IF g /\ (s \/ m[2] % 2 = 1)
    THEN LET m1 == BigInc(m)
         IN IF m1[1] = HalfLimb THEN [m |-> <<HalfLimb \div 2, 0>>, e |-> e + 1]
            ELSE [m |-> m1, e |-> e]
    ELSE [m |-> m, e |-> e]

\* n / d on two positive integers
DoubleOf(n, d) ==
    LET q0  == n \div d
        len == BitLen(q0)
        q   == QuotientBits(Big(n % d), Big(d), Big(q0), len)
    IN RoundEven(q.m, IF len > 0 THEN len - 53 ELSE -(q.z + 53), q.g, q.s)

\* w / x, w a positive integer and x a double
DoubleDiv(w, x) ==
    LET q == QuotientBits(Big(w), x.m, BigZero, 0)
    IN RoundEven(q.m, -(q.z + 53) - x.e, q.g, q.s)

Big3Twice(p) ==
    LET l0 == 2 * p[3]
        l1 == 2 * p[2] + l0 \div LimbBase
    IN <<2 * p[1] + l1 \div LimbBase, l1 % LimbBase, l0 % LimbBase>>

Big3Add(p, m) ==
    LET l0 == p[3] + m[2]
        l1 == p[2] + m[1] + l0 \div LimbBase
    IN <<p[1] + l1 \div LimbBase, l1 % LimbBase, l0 % LimbBase>>

Big3Half(p) ==
    <<p[1] \div 2, (p[1] % 2) * HalfLimb + p[2] \div 2, (p[2] % 2) * HalfLimb + p[3] \div 2>>

\* one step of the product d * m: the next bit of d, from the top
TimesStep(st, d, m) ==
    LET p == Big3Twice(st.p)
    IN [p |-> IF (d \div Pow2(st.k - 1)) % 2 = 1 THEN Big3Add(p, m) ELSE p,
        k |-> st.k - 1]

\* the exact product d * m in three limbs, d below 2^27
Times(d, m) ==
    Iterate(LAMBDA st : TimesStep(st, d, m), LAMBDA st : st.k = 0, 27,
            [p |-> <<0, 0, 0>>, k |-> BitLen(d)]).p

\* one step of bringing a product down to 53 bits: g is the bit that left
\* last, s whether a 1 left before it
NormalizeStep(st) ==
    [p |-> Big3Half(st.p), e |-> st.e + 1, g |-> st.p[3] % 2 = 1, s |-> st.s \/ st.g]

\* d * x, d a positive integer below 2^27 and x a double
DoubleMul(d, x) ==
    LET st == Iterate(NormalizeStep, LAMBDA t : t.p[1] = 0 /\ t.p[2] < HalfLimb, 28,
                      [p |-> Times(d, x.m), e |-> x.e, g |-> FALSE, s |-> FALSE])
    IN RoundEven(<<st.p[2], st.p[3]>>, st.e, st.g, st.s)

\* one step of a right shift by k bits: g is the bit that left last, s whether
\* a 1 left before it
ShiftStep(st) ==
    [m |-> BigHalf(st.m), k |-> st.k - 1, g |-> st.m[2] % 2 = 1, s |-> st.s \/ st.g]

\* the integer part of m * 2^-k, the first bit below it (g) and whether
\* anything is left below that bit (s)
ShiftRight(m, k) ==
    IF k > 54 THEN [m |-> BigZero, k |-> 0, g |-> FALSE, s |-> TRUE]
    ELSE Iterate(ShiftStep, LAMBDA st : st.k = 0, 54,
                 [m |-> m, k |-> k, g |-> FALSE, s |-> FALSE])

\* Math.ceil(x), x a positive double
MathCeil(x) ==
    LET p == ShiftRight(x.m, -x.e)
    IN BigToInt(p.m) + IF p.g \/ p.s THEN 1 ELSE 0

\* Math.round(x), x a positive double: a half goes up
MathRound(x) ==
    LET p == ShiftRight(x.m, -x.e)
    IN BigToInt(p.m) + IF p.g THEN 1 ELSE 0

\* -Math.round(-x), x a positive double: a half of a negative number goes up
MathRoundNeg(x) ==
    LET p == ShiftRight(x.m, -x.e)
    IN BigToInt(p.m) + IF p.g /\ p.s THEN 1 ELSE 0

\* Math.ceil(w / avg)
CeilDiv(w, avg) ==
    IF w = 0 THEN 0 ELSE MathCeil(DoubleDiv(w, DoubleOf(avg[1], avg[2])))

\* Math.round(d * avg)
RoundMul(d, avg) ==
    IF d = 0 THEN 0
    ELSE IF d > 0 THEN MathRound(DoubleMul(d, DoubleOf(avg[1], avg[2])))
    ELSE -MathRoundNeg(DoubleMul(-d, DoubleOf(avg[1], avg[2])))

(***************************************************************************)
(* blockRangeForWindow.                                                    *)
(***************************************************************************)
\* latest > sampleDelta ? latest - sampleDelta : 0n
SampleBlock(latest) == IF latest > SampleDelta THEN latest - SampleDelta ELSE 0

\* dn > 0 ? Math.max(0.2, dt / dn) : 1
EstAvg(dt, dn) ==
    IF dn > 0 THEN FracMax(Frac(AvgFloorNum, AvgFloorDen), Frac(dt, dn)) ELSE Frac(1, 1)

\* latest > estBlocks ? latest - estBlocks : 0n
EstFrom(latest, estBlocks) == IF latest > estBlocks THEN latest - estBlocks ELSE 0

\* latest > env.maxScanBlocks ? latest - env.maxScanBlocks : 0n
HardCapFrom_None(latest, cap) == 0
HardCapFrom(latest, cap) == IF latest > cap THEN latest - cap ELSE 0

\* estFrom < hardCapFrom ? hardCapFrom : estFrom
PickFrom_Est(estFrom, hardCapFrom) == estFrom
PickFrom(estFrom, hardCapFrom) == IF estFrom < hardCapFrom THEN hardCapFrom ELSE estFrom

BlockRange(latest, latestTs, sampleTs, windowSeconds, maxScanBlocks) ==
    LET dt  == latestTs - sampleTs
        dn  == latest - SampleBlock(latest)
        avg == EstAvg(dt, dn)
        estBlocks == CeilDiv(windowSeconds, avg)
    IN [fromBlock |-> PickFrom(EstFrom(latest, estBlocks), HardCapFrom(latest, maxScanBlocks)),
        toBlock   |-> latest]

\* const cacheKey = `blockTs:${blockNumber.toString()}`
BlockTsKey(blockNumber) == "blockTs:" \o ToString(blockNumber)

\* getBlockTimestampSeconds(blockNumber) up to its return or its await:
\* cacheGet(cacheKey) on the cache c
getBlockTimestampSeconds(c, blockNumber) == cacheGet(c, BlockTsKey(blockNumber), now)

\* blockRangeForWindow from getBlockTimestampSeconds(sampleBlock) on, latestTs
\* known: a cached timestamp is returned at once and the range follows,
\* otherwise getBlock is sent
EstAtSample(c, latest, latestTs) ==
    LET g == getBlockTimestampSeconds(c, SampleBlock(latest))
    IN [pc |-> IF g.hit THEN "done" ELSE "sampleTs", cache |-> g.cache,
        latestTs |-> latestTs, sampleTs |-> IF g.hit THEN g.value ELSE eSampleTs]

\* blockRangeForWindow from getBlockTimestampSeconds(latest) on
EstAtLatest(c, latest) ==
    LET g == getBlockTimestampSeconds(c, latest)
    IN IF g.hit THEN EstAtSample(g.cache, latest, g.value)
       ELSE [pc |-> "latestTs", cache |-> g.cache,
             latestTs |-> eLatestTs, sampleTs |-> eSampleTs]

\* the call is at s; once both timestamps are there the range is returned
EstBecomes(s, latest) ==
    /\ ePc' = s.pc
    /\ cache' = s.cache
    /\ eLatestTs' = s.latestTs
    /\ eSampleTs' = s.sampleTs
    /\ eOut' = IF s.pc = "done"
               THEN BlockRange(latest, s.latestTs, s.sampleTs, eWindow, eMaxScan)
               ELSE eOut
    /\ UNCHANGED <<eWindow, eMaxScan, now, cOps, cLast>>
    /\ UNCHANGED <<chunkVars, retryVars, dedupVars, tmVars, moreVars>>

\* what the provider and the configuration may be in the modelled runs
Heads == {0, 1, 3, 1500, 2000, 2001, 100000}

Timestamps == {1000, 1576, 2000, 5000}

Windows == {0, 1, 7, 3600}

ScanCaps == {0, 1000, 20000}

\* the entries an earlier blockRangeForWindow call left at time 0: head 2001
\* with timestamp 5000, sample block 1 with timestamp 1000
LeftBlockTs ==
    <<Entry(BlockTsKey(2001), 5000, BlockTsTtlMs), Entry(BlockTsKey(1), 1000, BlockTsTtlMs)>>

\* the cache a call may find: empty, or with the earlier call's entries,
\* five minutes later or just after they expired
RangeCacheInit ==
    /\ cOps = 0 /\ cLast = NoLast
    /\ \/ cache = <<>> /\ now = 0
       \/ cache = LeftBlockTs /\ now \in {BlockTsTtlMs \div 2, BlockTsTtlMs + 1}

EstInit ==
    /\ ePc = "idle" /\ eWindow \in Windows /\ eMaxScan \in ScanCaps
    /\ eHead = 0 /\ eLatest = 0 /\ eLatestTs = 0 /\ eSampleTs = 0 /\ eOut = <<>>

\* blockRangeForWindow(windowSeconds) is called: getBlockNumber is sent
EstCall ==
    /\ ePc = "idle"
    /\ ePc' = "head"
    /\ UNCHANGED <<eWindow, eMaxScan, eHead, eLatest, eLatestTs, eSampleTs, eOut>>
    /\ UNCHANGED <<chunkVars, retryVars, dedupVars, cacheVars, tmVars, moreVars>>

\* the provider answers the head block number h; getBlockTimestampSeconds
\* (latest) is called
EstHeadAns(h) ==
    /\ ePc = "head"
    /\ eHead' = h /\ eLatest' = h
    /\ EstBecomes(EstAtLatest(cache, h), h)

EstHead == \E h \in Heads : EstHeadAns(h)

\* getBlock(latest) answers the timestamp ts: it is stored for 10 minutes and
\* getBlockTimestampSeconds(sampleBlock) is called
EstLatestTsAns(ts) ==
    /\ ePc = "latestTs"
    /\ UNCHANGED <<eHead, eLatest>>
    /\ EstBecomes(EstAtSample(cacheSet(cache, BlockTsKey(eLatest), ts, BlockTsTtlMs, now),
                              eLatest, ts),
                  eLatest)

EstLatestTs == \E ts \in Timestamps : EstLatestTsAns(ts)

\* getBlock(sampleBlock) answers the timestamp ts: it is stored for 10
\* minutes and the range is returned
EstSampleTsAns(ts) ==
    /\ ePc = "sampleTs"
    /\ UNCHANGED <<eHead, eLatest>>
    /\ EstBecomes([pc |-> "done",
                   cache |-> cacheSet(cache, BlockTsKey(SampleBlock(eLatest)), ts,
                                      BlockTsTtlMs, now),
                   latestTs |-> eLatestTs, sampleTs |-> ts],
                  eLatest)

EstSampleTs == \E ts \in Timestamps : EstSampleTsAns(ts)

(***************************************************************************)
(* getTimeModel and applyApproxTimestamps.                                 *)
(***************************************************************************)
TimeModelKey == "timeModel"

\* latestBlock > sampleDelta ? latestBlock - sampleDelta : 0n
TmSampleBlock(latestBlock) ==
    IF latestBlock > TmSampleDelta THEN latestBlock - TmSampleDelta ELSE 0

\* const dt = Math.max(1, latestTs - sampleTs)
\* const avgSecondsPerBlock = dn > 0 ? Math.max(0.2, dt / dn) : 1
TmAvg_NoFloor(latestTs, sampleTs, dn) ==
    IF dn > 0 THEN Frac(Max(1, latestTs - sampleTs), dn) ELSE Frac(1, 1)
TmAvg(latestTs, sampleTs, dn) ==
    IF dn > 0
    THEN FracMax(Frac(TmAvgFloorNum, TmAvgFloorDen), Frac(Max(1, latestTs - sampleTs), dn))
    ELSE Frac(1, 1)

\* const out = { latestBlock, latestTs, avgSecondsPerBlock }
TimeModel(latestBlock, latestTs, sampleTs) ==
    [latestBlock |-> latestBlock, latestTs |-> latestTs,
     avgSecondsPerBlock |->
         TmAvg(latestTs, sampleTs, latestBlock - TmSampleBlock(latestBlock))]

\* Math.max(0, Math.round(...))
ClampDelta_None(r) == r
ClampDelta(r) == Max(0, r)

\* model.latestTs - Math.max(0, Math.round(deltaBlocks * model.avgSecondsPerBlock))
ApproxTimestamp_Plus(model, blockNumber) ==
    LET deltaBlocks == model.latestBlock - blockNumber
    IN model.latestTs + ClampDelta(RoundMul(deltaBlocks, model.avgSecondsPerBlock))
ApproxTimestamp(model, blockNumber) ==
    LET deltaBlocks == model.latestBlock - blockNumber
    IN model.latestTs - ClampDelta(RoundMul(deltaBlocks, model.avgSecondsPerBlock))

\* items.map(...)
applyApproxTimestamps(items, model) ==
    [i \in 1..Len(items) |-> ApproxTimestamp(model, items[i])]

TmHeads == {0, 3, 200, 2000, 2001, 100000}

TmTimestamps == {800, 1000, 1408, 2000, 5000}

\* the block numbers of the items given: below, at and above the head
ItemBlocks(h) ==
    <<0, 1, 150, 200, Max(0, h - 1999), Max(0, h - 625), Max(0, h - 3), h, h + 5>>

\* the entry an earlier getTimeModel call left at time 0: head 2001 with
\* timestamp 5000, sample block 1 with timestamp 1000
LeftTimeModel == <<Entry(TimeModelKey, TimeModel(2001, 5000, 1000), TimeModelTtlMs)>>

\* the cache a call may find: empty, or with the earlier call's model, ten
\* seconds later or just after it expired
TimeCacheInit ==
    /\ cOps = 0 /\ cLast = NoLast
    /\ \/ cache = <<>> /\ now = 0
       \/ cache = LeftTimeModel /\ now \in {10000, TimeModelTtlMs + 1}

TmInit ==
    /\ mPc = "idle" /\ mLatest = 0 /\ mLatestTs = 0 /\ mSampleTs = 0
    /\ mModel = <<>> /\ mItems = <<>> /\ mStamps = <<>>

\* getTimeModel() is called: cacheGet('timeModel'); a live model is returned,
\* otherwise getBlockNumber is sent
TmCall ==
    /\ mPc = "idle"
    /\ LET g == cacheGet(cache, TimeModelKey, now)
       IN /\ cache' = g.cache
          /\ mPc' = IF g.hit THEN "cached" ELSE "head"
          /\ mModel' = IF g.hit THEN g.value ELSE mModel
    /\ UNCHANGED <<mLatest, mLatestTs, mSampleTs, mItems, mStamps>>
    /\ UNCHANGED <<now, cOps, cLast>>
    /\ UNCHANGED <<chunkVars, retryVars, dedupVars, estVars, moreVars>>

\* the provider answers the head block number h
TmHeadAns(h) ==
    /\ mPc = "head"
    /\ mLatest' = h
    /\ mPc' = "latest"
    /\ UNCHANGED <<mLatestTs, mSampleTs, mModel, mItems, mStamps>>
    /\ UNCHANGED <<chunkVars, retryVars, dedupVars, cacheVars, estVars, moreVars>>

TmHead == \E h \in TmHeads : TmHeadAns(h)

\* getBlock({ blockNumber: latestBlock }) answers the timestamp ts
TmLatestAns(ts) ==
    /\ mPc = "latest"
    /\ mLatestTs' = ts
    /\ mPc' = "sample"
    /\ UNCHANGED <<mLatest, mSampleTs, mModel, mItems, mStamps>>
    /\ UNCHANGED <<chunkVars, retryVars, dedupVars, cacheVars, estVars, moreVars>>

TmLatest == \E ts \in TmTimestamps : TmLatestAns(ts)

\* getBlock({ blockNumber: sampleBlock }) answers the timestamp ts: the model
\* is built, stored for 30 s and returned
TmSampleAns(ts) ==
    /\ mPc = "sample"
    /\ LET out == TimeModel(mLatest, mLatestTs, ts)
       IN /\ mSampleTs' = ts
          /\ mModel' = out
          /\ cache' = cacheSet(cache, TimeModelKey, out, TimeModelTtlMs, now)
    /\ mPc' = "built"
    /\ UNCHANGED <<mLatest, mLatestTs, mItems, mStamps>>
    /\ UNCHANGED <<now, cOps, cLast>>
    /\ UNCHANGED <<chunkVars, retryVars, dedupVars, estVars, moreVars>>

\* the same block has the same timestamp
TmSample ==
    \E ts \in TmTimestamps :
        /\ TmSampleBlock(mLatest) = mLatest => ts = mLatestTs
        /\ TmSampleAns(ts)

\* applyApproxTimestamps(items, model) with the model getTimeModel returned
TmApply ==
    /\ mPc \in {"built", "cached"}
    /\ mItems' = ItemBlocks(mModel.latestBlock)
    /\ mStamps' = applyApproxTimestamps(ItemBlocks(mModel.latestBlock), mModel)
    /\ mPc' = "applied"
    /\ UNCHANGED <<mLatest, mLatestTs, mSampleTs, mModel>>
    /\ UNCHANGED <<chunkVars, retryVars, dedupVars, cacheVars, estVars, moreVars>>

(***************************************************************************)
(* getTimeModel called by several callers over the shared cache.  Every    *)
(* await of a call is a step, so calls interleave as the event loop lets   *)
(* them.  cOps and cLast belong to the cache taken on its own and stay.    *)
(***************************************************************************)
Callers == {1, 2}

NoModel == <<>>

SharedHeads == {2000, 2001}

SharedLatestTs == {4000, 5000}

SharedSampleTs == {1000}

SharedDelays == {10000, 30001}

SharedInit ==
    /\ gPc = [c \in Callers |-> "idle"]
    /\ gLoc = [c \in Callers |-> [latestBlock |-> 0, latestTs |-> 0]]
    /\ gStart = [c \in Callers |-> 0]
    /\ gMiss = [c \in Callers |-> FALSE]
    /\ gRet = [c \in Callers |-> NoModel]
    /\ gHeadQ = 0 /\ gBlockQ = 0

\* getTimeModel() is called: cacheGet('timeModel'); a live entry is returned,
\* otherwise getBlockNumber is sent
GCall(c) ==
    /\ gPc[c] = "idle"
    /\ LET found == IndexOf(cache, TimeModelKey) # 0
           hit   == LruFind(cache, TimeModelKey)
           live  == found /\ ~IsExpired(hit, now)
       IN /\ cache' = IF found /\ ~live
                      THEN LruDelete(LruGet(cache, TimeModelKey), TimeModelKey)
                      ELSE LruGet(cache, TimeModelKey)
          /\ gStart' = [gStart EXCEPT ![c] = now]
          /\ gMiss' = [gMiss EXCEPT ![c] = ~live]
          /\ IF live
             THEN /\ gPc' = [gPc EXCEPT ![c] = "done"]
                  /\ gRet' = [gRet EXCEPT ![c] = hit.value]
                  /\ UNCHANGED gHeadQ
             ELSE /\ gPc' = [gPc EXCEPT ![c] = "head"]
                  /\ gHeadQ' = gHeadQ + 1
                  /\ UNCHANGED gRet
    /\ UNCHANGED <<gLoc, gBlockQ, now, cOps, cLast>>
    /\ UNCHANGED <<chunkVars, retryVars, dedupVars, estVars, tmVars>>
    /\ UNCHANGED <<aliasVars, btVars, warmVars>>

\* the head block number arrives; getBlock(latestBlock) is sent
GHead(c) ==
    /\ gPc[c] = "head"
    /\ \E h \in SharedHeads : gLoc' = [gLoc EXCEPT ![c].latestBlock = h]
    /\ gPc' = [gPc EXCEPT ![c] = "latest"]
    /\ gBlockQ' = gBlockQ + 1
    /\ UNCHANGED <<gStart, gMiss, gRet, gHeadQ, cacheVars>>
    /\ UNCHANGED <<chunkVars, retryVars, dedupVars, estVars, tmVars>>
    /\ UNCHANGED <<aliasVars, btVars, warmVars>>

\* the latest block arrives; getBlock(sampleBlock) is sent
GLatest(c) ==
    /\ gPc[c] = "latest"
    /\ \E ts \in SharedLatestTs : gLoc' = [gLoc EXCEPT ![c].latestTs = ts]
    /\ gPc' = [gPc EXCEPT ![c] = "sample"]
    /\ gBlockQ' = gBlockQ + 1
    /\ UNCHANGED <<gStart, gMiss, gRet, gHeadQ, cacheVars>>
    /\ UNCHANGED <<chunkVars, retryVars, dedupVars, estVars, tmVars>>
    /\ UNCHANGED <<aliasVars, btVars, warmVars>>

\* the sample block arrives: the model is built, stored for 30 s and returned
GSample(c) ==
    /\ gPc[c] = "sample"
    /\ \E ts \in SharedSampleTs :
         LET out == TimeModel(gLoc[c].latestBlock, gLoc[c].latestTs, ts)
         IN /\ cache' = LruSet(cache, Entry(TimeModelKey, out, now + TimeModelTtlMs))
            /\ gRet' = [gRet EXCEPT ![c] = out]
    /\ gPc' = [gPc EXCEPT ![c] = "done"]
    /\ UNCHANGED <<gLoc, gStart, gMiss, gHeadQ, gBlockQ, now, cOps, cLast>>
    /\ UNCHANGED <<chunkVars, retryVars, dedupVars, estVars, tmVars>>
    /\ UNCHANGED <<aliasVars, btVars, warmVars>>

\* time passes
GTick ==
    /\ \E d \in SharedDelays :
         /\ now + d <= MaxSharedNow
         /\ now' = now + d
    /\ UNCHANGED <<sharedVars, cache, cOps, cLast>>
    /\ UNCHANGED <<chunkVars, retryVars, dedupVars, estVars, tmVars>>
    /\ UNCHANGED <<aliasVars, btVars, warmVars>>

(***************************************************************************)
(* Callers of the cache and the objects they hold.  A JavaScript object is *)
(* a place in the heap: hHeap[r] is the content of object r, and the cache *)
(* entry's value is the reference r itself, since cacheSet stores the      *)
(* value it is given and cacheGet returns hit.value.  hStored[k] remembers *)
(* the content the object had when cacheSet stored it under k, hGot what   *)
(* the last cacheGet handed out.                                           *)
(***************************************************************************)
AliasKeys == {1, 2}

Contents == {1, 2}

AliasTtls == {10}

NoGot == <<>>

AliasInit ==
    /\ hHeap = <<>> /\ hHeld = {} /\ hGot = NoGot
    /\ hStored = [k \in AliasKeys |-> Undefined]

\* a caller builds an object and calls cacheSet(key, object, ttlMs)
ASet ==
    /\ Len(hHeap) < MaxObjects
    /\ \E k \in AliasKeys, ttlMs \in AliasTtls, v \in Contents :
         LET r == Len(hHeap) + 1
         IN /\ hHeap' = Append(hHeap, v)
            /\ hHeld' = hHeld \cup {r}
            /\ cache' = LruSet(cache, Entry(k, r, now + ttlMs))
            /\ hStored' = [hStored EXCEPT ![k] = v]
    /\ UNCHANGED <<hGot, now, cOps, cLast>>
    /\ UNCHANGED <<chunkVars, retryVars, dedupVars, estVars, tmVars>>
    /\ UNCHANGED <<sharedVars, btVars, warmVars>>

\* a caller calls cacheGet(key) and keeps what it returns
AGet ==
    /\ \E k \in AliasKeys :
         LET hit  == LruFind(cache, k)
             c1   == LruGet(cache, k)
             live == hit # NoEntry /\ ~IsExpired(hit, now)
         IN /\ cache' = IF hit # NoEntry /\ ~live THEN LruDelete(c1, k) ELSE c1
            /\ hGot' = [key |-> k, ref |-> IF live THEN hit.value ELSE Undefined,
                        seen |-> IF live THEN hHeap[hit.value] ELSE Undefined,
                        stored |-> hStored[k]]
            /\ hHeld' = IF live THEN hHeld \cup {hit.value} ELSE hHeld
    /\ UNCHANGED <<hHeap, hStored, now, cOps, cLast>>
    /\ UNCHANGED <<chunkVars, retryVars, dedupVars, estVars, tmVars>>
    /\ UNCHANGED <<sharedVars, btVars, warmVars>>

\* a caller assigns to a field of an object it holds
AMutate ==
    /\ \E r \in hHeld, v \in Contents :
         /\ v # hHeap[r]
         /\ hHeap' = [hHeap EXCEPT ![r] = v]
    /\ UNCHANGED <<hHeld, hStored, hGot, cacheVars>>
    /\ UNCHANGED <<chunkVars, retryVars, dedupVars, estVars, tmVars>>
    /\ UNCHANGED <<sharedVars, btVars, warmVars>>

\* time passes
ATick ==
    /\ \E d \in Delays :
         /\ now + d <= MaxNow
         /\ now' = now + d
    /\ UNCHANGED <<aliasVars, cache, cOps, cLast>>
    /\ UNCHANGED <<chunkVars, retryVars, dedupVars, estVars, tmVars>>
    /\ UNCHANGED <<sharedVars, btVars, warmVars>>

(***************************************************************************)
(* blockRangeForWindow (logs.ts) and getTimeModel (timeModel.ts) called    *)
(* over the same chain: bHead is the head block number the provider        *)
(* answers, bLatestTs and bSampleTs the timestamps of the head block and   *)
(* of the sample block.  Timestamps do not decrease along the chain.  The  *)
(* two calls run side by side, each step an answer of the provider.        *)
(***************************************************************************)
BtHeads == {0, 3, 4, 5, 2000, 2001}

BtTimestamps == {1000, 1001, 2000, 5000}

BtInit ==
    /\ bHead \in BtHeads /\ bLatestTs \in BtTimestamps /\ bSampleTs \in BtTimestamps
    /\ bSampleTs <= bLatestTs
    /\ SampleBlock(bHead) = bHead => bSampleTs = bLatestTs

(***************************************************************************)
(* Cache warming and the HTTP handlers (index.ts) with the async functions *)
(* they run (analytics.ts, tokenlist.ts, logs.ts, timeModel.ts).           *)
(*                                                                         *)
(* wRuns holds every warmCache run that passed the isWarming test, in      *)
(* start order: pc is "dashboard" (awaiting buildDashboard), "others"      *)
(* (awaiting Promise.allSettled) or "finished" (the finally block ran);    *)
(* timer is the run's reset timeout: "armed", "fired" or "cleared".        *)
(*                                                                         *)
(* wCalls holds the async function calls that have not settled: fn is the  *)
(* function, pc the await it is at, parent the call awaiting it (0: none,  *)
(* or the awaiting call has rejected), n the number of awaited calls or    *)
(* requests still open, a the call's local (the run of warmCache and of    *)
(* its buildDashboard, the head block number of blockRangeForWindow and of *)
(* getTimeModel).  wReqs holds the requests sent and not yet answered, in  *)
(* the order they were sent.                                               *)
(*                                                                         *)
(* A step is one task of the event loop: a timer callback, an HTTP handler *)
(* or the answer to a request, with everything that runs before the next   *)
(* task, so every synchronous cacheGet and cacheSet and every continuation *)
(* of an await whose promise is settled.  A continuation of an await on an *)
(* already settled call runs after the synchronous code in progress.       *)
(*                                                                         *)
(* The provider answers requests in the order they were sent.  fetch and   *)
(* res.json() of fetchTokenlist are one request; withRpcRetry and          *)
(* getLogsChunked, which touch neither the cache nor isWarming, are taken  *)
(* as one request each, answered or refused.  wNow is the time in ms since *)
(* the server started, Date.now() (now) the same time; it moves from one   *)
(* timer deadline to the next, and an answer may arrive at any of them.    *)
(***************************************************************************)
\* const cacheKey = `dashboard:${windowSeconds}`
DashboardKey == "dashboard:" \o ToString(DASHBOARD_WINDOW)

\* const cacheKey = `tokenlist:${env.tokenlistUrl}`
TokenlistKey == "tokenlist:env.tokenlistUrl"

\* const cacheKey = 'feeAmmSummary'
FeeAmmKey == "feeAmmSummary"

SponsorshipKey == "sponsorship:" \o ToString(DASHBOARD_WINDOW)

\* the chain: a block every BlockMs ms, block WarmHead0 the head when the
\* server starts; a block's timestamp in seconds is its number
HeadAt(t) == WarmHead0 + t \div BlockMs

TimestampOf(blockNumber) == (blockNumber * BlockMs) \div 1000

FreeCall == [fn |-> "free", pc |-> "settled", parent |-> 0, n |-> 0, a |-> 0]

AsyncCall(fn, parent, a) == [fn |-> fn, pc |-> "start", parent |-> parent, n |-> 0, a |-> a]

Pending(id, kind, block) == [call |-> id, kind |-> kind, block |-> block]

\* the slot a new call takes
Allocate(calls) ==
    LET free == {i \in 1..Len(calls) : calls[i].fn = "free"}
    IN IF free = {} THEN Len(calls) + 1 ELSE CHOOSE i \in free : \A j \in free : i <= j

PutCall(calls, i, c) == IF i > Len(calls) THEN Append(calls, c) ELSE [calls EXCEPT ![i] = c]

RECURSIVE TrimCalls(_)
TrimCalls(calls) ==
    IF calls # <<>> /\ calls[Len(calls)].fn = "free"
    THEN TrimCalls(SubSeq(calls, 1, Len(calls) - 1))
    ELSE calls

CallAt(m, id, pc, n) == [m EXCEPT !.calls[id].pc = pc, !.calls[id].n = n]

CallHas(m, id, a) == [m EXCEPT !.calls[id].a = a]

\* a request goes out
Sends(m, id, kind, block) == [m EXCEPT !.reqs = Append(@, Pending(id, kind, block))]

\* cacheSet(key, value, ttlMs) at the machine's time
Stores(m, k, v, ttlMs) == [m EXCEPT !.cache = cacheSet(@, k, v, ttlMs, m.now)]

Run(start, pc) ==
    [start |-> start, pc |-> pc, timer |-> "armed",
     deadline |-> start + WARM_TIMEOUT_MS]

\* the finally block: clearTimeout(timeoutId); isWarming = false
Finally(s, r) ==
    [s EXCEPT !.isWarming = FALSE,
              !.runs[r].pc = "finished",
              !.runs[r].timer = IF s.runs[r].timer = "armed" THEN "cleared"
                                ELSE s.runs[r].timer]

RECURSIVE Continue(_, _, _)

\* the call id returns (ok) or throws: its promise settles.  The calls it
\* was awaiting and the requests it had out go on with nobody awaiting them.
\* An awaiting parent goes on when the last call it awaits has returned,
\* and throws at once when one of them throws; Promise.allSettled (pc
\* "others") waits for all of them either way.  warmCache ends in its
\* finally block.
\* (the call and request tables are rebuilt with \o <<>> so that they stay
\* tuples)
RECURSIVE Settles(_, _, _)
Settles(m, id, ok) ==
    LET c    == m.calls[id]
        p    == c.parent
        sync == p # 0 /\ m.calls[p].pc = "start"
        m1   == [m EXCEPT
                   !.calls = [i \in 1..Len(m.calls) |->
                                IF i = id
                                THEN (IF sync THEN [c EXCEPT !.pc = "ok"] ELSE FreeCall)
                                ELSE IF m.calls[i].parent = id
                                THEN [m.calls[i] EXCEPT !.parent = 0]
                                ELSE m.calls[i]] \o <<>>,
                   !.reqs = [i \in 1..Len(m.reqs) |->
                               IF m.reqs[i].call = id
                               THEN [m.reqs[i] EXCEPT !.call = 0]
                               ELSE m.reqs[i]] \o <<>>]
    IN IF c.fn = "warmCache" THEN Finally(m1, c.a)
       ELSE IF p = 0 \/ sync THEN m1
       ELSE IF ok \/ m.calls[p].pc = "others"
       THEN IF m.calls[p].n = 1
            THEN Continue(CallAt(m1, p, m.calls[p].pc, 0), p, "resumed")
            ELSE [m1 EXCEPT !.calls[p].n = @ - 1]
       ELSE Settles(m1, p, FALSE)

\* await / await Promise.all([...]) of the calls kids, just made by call id:
\* those that returned without waiting are done with; if none is open the
\* continuation is queued behind the synchronous code in progress
AwaitAll(m, id, kids, pc) ==
    LET made == {kids[i] : i \in 1..Len(kids)}
        open == {k \in made : m.calls[k].pc # "ok"}
        m1   == [m EXCEPT
                   !.calls = [i \in 1..Len(m.calls) |->
                                IF i \in made \ open THEN FreeCall
                                ELSE IF i = id
                                THEN [m.calls[i] EXCEPT !.pc = pc, !.n = Cardinality(open)]
                                ELSE m.calls[i]] \o <<>>]
    IN IF open = {} THEN [m1 EXCEPT !.defer = Append(@, id)] ELSE m1

\* call fn() from call parent (0: from a handler): the call runs up to its
\* first await that waits
Spawn(m, fn, parent, a) ==
    LET id == Allocate(m.calls)
    IN Continue([m EXCEPT !.calls = PutCall(@, id, AsyncCall(fn, parent, a))], id, "call")

RECURSIVE SpawnAll(_, _, _, _, _)
SpawnAll(m, id, fns, kids, pc) ==
    IF fns = <<>> THEN AwaitAll(m, id, kids, pc)
    ELSE SpawnAll(Spawn(m, Head(fns), id, m.calls[id].a), id, Tail(fns),
                  Append(kids, Allocate(m.calls)), pc)

\* the calls fns are made in their order by call id, which then awaits them
AwaitCalls(m, id, fns, pc) == SpawnAll(CallAt(m, id, "start", 0), id, fns, <<>>, pc)

\* fetchTokenlist(): await fetch(env.tokenlistUrl), then await res.json()
fetchTokenlist(m, id, ev) ==
    IF ev = "call"
    THEN LET g  == cacheGet(m.cache, TokenlistKey, m.now)
             m1 == [m EXCEPT !.cache = g.cache]
         IN IF g.hit THEN Settles(m1, id, TRUE)
            ELSE Sends(CallAt(m1, id, "fetch", 0), id, "fetch", 0)
    ELSE IF m.calls[id].pc = "fetch"
    THEN Sends(CallAt(m, id, "json", 0), id, "json", 0)
    ELSE Settles(Stores(m, TokenlistKey, "TokenList", TokenlistTtlMs), id, TRUE)

\* await getBlockTimestampSeconds(sampleBlock), then return
SampleTsStage(m, id) ==
    LET b  == SampleBlock(m.calls[id].a)
        g  == cacheGet(m.cache, BlockTsKey(b), m.now)
        m1 == [m EXCEPT !.cache = g.cache]
    IN IF g.hit THEN Settles(m1, id, TRUE)
       ELSE Sends(CallAt(m1, id, "sampleTs", 0), id, "getBlock", b)

\* await getBlockTimestampSeconds(latest), then the sample block
LatestTsStage(m, id) ==
    LET b  == m.calls[id].a
        g  == cacheGet(m.cache, BlockTsKey(b), m.now)
        m1 == [m EXCEPT !.cache = g.cache]
    IN IF g.hit THEN SampleTsStage(m1, id)
       ELSE Sends(CallAt(m1, id, "latestTs", 0), id, "getBlock", b)

\* blockRangeForWindow(windowSeconds); the range it returns is used by
\* getLogsChunked alone
blockRangeForWindow(m, id, ev) ==
    LET c == m.calls[id]
    IN IF ev = "call" THEN Sends(CallAt(m, id, "head", 0), id, "getBlockNumber", 0)
       ELSE IF c.pc = "head" THEN LatestTsStage(CallHas(m, id, HeadAt(m.now)), id)
       ELSE IF c.pc = "latestTs"
       THEN SampleTsStage(Stores(m, BlockTsKey(c.a), TimestampOf(c.a), BlockTsTtlMs), id)
       ELSE Settles(Stores(m, BlockTsKey(SampleBlock(c.a)), TimestampOf(SampleBlock(c.a)),
                           BlockTsTtlMs), id, TRUE)

\* getTimeModel()
getTimeModel(m, id, ev) ==
    LET c == m.calls[id]
    IN IF ev = "call"
       THEN LET g  == cacheGet(m.cache, TimeModelKey, m.now)
                m1 == [m EXCEPT !.cache = g.cache]
            IN IF g.hit THEN Settles(m1, id, TRUE)
               ELSE Sends(CallAt(m1, id, "head", 0), id, "getBlockNumber", 0)
       ELSE IF c.pc = "head"
       THEN Sends(CallAt(CallHas(m, id, HeadAt(m.now)), id, "latest", 0),
                  id, "getBlock", HeadAt(m.now))
       ELSE IF c.pc = "latest"
       THEN Sends(CallAt(m, id, "sample", 0), id, "getBlock", TmSampleBlock(c.a))
       ELSE Settles(Stores(m, TimeModelKey,
                           TimeModel(c.a, TimestampOf(c.a), TimestampOf(TmSampleBlock(c.a))),
                           TimeModelTtlMs), id, TRUE)

\* attachTimestamps(items): await getTimeModel()
attachTimestamps(m, id) == AwaitCalls(m, id, <<"getTimeModel">>, "time")

\* getMemoTransfers(windowSeconds, memo), fetchMemoTransfersRpc
getMemoTransfers(m, id, ev) ==
    LET c == m.calls[id]
    IN IF ev = "call"
       THEN AwaitCalls(m, id, <<"fetchTokenlist", "blockRangeForWindow">>, "range")
       ELSE IF c.pc = "range" THEN Sends(CallAt(m, id, "logs", 0), id, "getLogs", 0)
       ELSE IF c.pc = "logs" THEN attachTimestamps(m, id)
       ELSE Settles(m, id, TRUE)

\* the fee payments a getFeePayments call returns go to the
\* getSponsorshipData call awaiting it
Returns(m, id, fees) ==
    LET p == m.calls[id].parent
    IN IF p # 0 /\ m.calls[p].fn = "getSponsorshipData" THEN CallHas(m, p, fees) ELSE m

\* getFeePayments(windowSeconds), fetchFeePaymentsRpc: with no Transfer log
\* it asks again for TransferWithMemo logs
getFeePayments(m, id, ev) ==
    LET c == m.calls[id]
    IN IF ev = "call"
       THEN AwaitCalls(m, id, <<"fetchTokenlist", "blockRangeForWindow">>, "range")
       ELSE IF c.pc = "range" THEN Sends(CallAt(m, id, "logs", 0), id, "getLogs", 0)
       ELSE IF c.pc = "logs" /\ ev = "empty"
       THEN Sends(CallAt(m, id, "logs2", 0), id, "getLogs", 0)
       ELSE IF c.pc \in {"logs", "logs2"}
       THEN attachTimestamps(Returns(m, id, IF ev = "empty" THEN 0 ELSE FeePaymentsFound), id)
       ELSE Settles(m, id, TRUE)

\* getSponsorshipData(windowSeconds): one getTransaction for each
\* transaction of the fee payments, a failed one ignored
getSponsorshipData(m, id, ev) ==
    LET c == m.calls[id]
        lookups == Min(c.a, TxLookupLimit)
    IN IF ev = "call"
       THEN LET g  == cacheGet(m.cache, SponsorshipKey, m.now)
                m1 == [m EXCEPT !.cache = g.cache]
            IN IF g.hit THEN Settles(m1, id, TRUE)
               ELSE AwaitCalls(m1, id, <<"getFeePayments">>, "fees")
       ELSE IF c.pc = "fees" /\ lookups > 0
       THEN [CallAt(m, id, "txs", lookups) EXCEPT
               !.reqs = @ \o [i \in 1..lookups |-> Pending(id, "getTransaction", 0)]]
       ELSE IF c.pc = "txs" /\ c.n > 1 THEN CallAt(m, id, "txs", c.n - 1)
       ELSE Settles(Stores(m, SponsorshipKey, "SponsorshipData", SponsorshipTtlMs), id, TRUE)

\* getTotalTransfers(windowSeconds), fetchTotalTransfersRpc
getTotalTransfers(m, id, ev) ==
    LET c == m.calls[id]
    IN IF ev = "call"
       THEN AwaitCalls(m, id, <<"fetchTokenlist", "blockRangeForWindow">>, "range")
       ELSE IF c.pc = "range" THEN Sends(CallAt(m, id, "logs", 0), id, "getLogs", 0)
       ELSE IF c.pc = "logs" /\ ev = "empty"
       THEN Sends(CallAt(m, id, "logs2", 0), id, "getLogs", 0)
       ELSE Settles(m, id, TRUE)

\* getComplianceEvents(windowSeconds): four getLogsChunked calls at once
getComplianceEvents(m, id, ev) ==
    LET c == m.calls[id]
    IN IF ev = "call" THEN AwaitCalls(m, id, <<"blockRangeForWindow">>, "range")
       ELSE IF c.pc = "range"
       THEN Sends(Sends(Sends(Sends(CallAt(m, id, "logs", 4),
                id, "getLogs", 0), id, "getLogs", 0), id, "getLogs", 0), id, "getLogs", 0)
       ELSE IF c.pc = "logs" /\ c.n > 1 THEN CallAt(m, id, "logs", c.n - 1)
       ELSE IF c.pc = "logs" THEN attachTimestamps(m, id)
       ELSE Settles(m, id, TRUE)

\* getFeeAmmSummary()
getFeeAmmSummary(m, id, ev) ==
    LET c == m.calls[id]
    IN IF ev = "call"
       THEN LET g  == cacheGet(m.cache, FeeAmmKey, m.now)
                m1 == [m EXCEPT !.cache = g.cache]
            IN IF g.hit THEN Settles(m1, id, TRUE)
               ELSE AwaitCalls(m1, id, <<"fetchTokenlist">>, "tokenlist")
       ELSE IF c.pc = "tokenlist"
       THEN Sends(CallAt(m, id, "multicall", 0), id, "multicall", 0)
       ELSE Settles(Stores(m, FeeAmmKey, "FeeAmmSummary", FeeAmmTtlMs), id, TRUE)

\* buildDashboard(windowSeconds); the stored object is named by the run
\* that built it (0: an HTTP handler)
buildDashboard(m, id, ev) ==
    LET c == m.calls[id]
    IN IF ev = "call"
       THEN LET g  == cacheGet(m.cache, DashboardKey, m.now)
                m1 == [m EXCEPT !.cache = g.cache]
            IN IF g.hit THEN Settles(m1, id, TRUE)
               ELSE AwaitCalls(m1, id,
                               <<"fetchTokenlist", "blockRangeForWindow", "getMemoTransfers",
                                 "getFeePayments", "getComplianceEvents", "getFeeAmmSummary",
                                 "getTotalTransfers">>, "all")
       ELSE Settles(Stores(m, DashboardKey, c.a, DashboardTtlMs), id, TRUE)

\* warmCache() past the isWarming test: the try block
warmCacheRun(m, id, ev) ==
    LET c == m.calls[id]
    IN IF ev = "call" THEN AwaitCalls(m, id, <<"buildDashboard">>, "dashboard")
       ELSE IF c.pc = "dashboard"
       THEN AwaitCalls([m EXCEPT !.runs[c.a].pc = "others"], id,
                       <<"getFeePayments", "getComplianceEvents">>, "others")
       ELSE Settles(m, id, TRUE)

\* the handler of /api/health: await publicClient.getBlockNumber()
health(m, id, ev) ==
    IF ev = "call" THEN Sends(CallAt(m, id, "head", 0), id, "getBlockNumber", 0)
    ELSE Settles(m, id, TRUE)

\* the handler of '*': res.sendFile(...)
sendFile(m, id) == Settles(m, id, TRUE)

\* the call id goes on: ev is "call" (it is called), "resumed" (what it
\* awaited has returned), or the answer to its request: "ok", or "empty"
\* for a getLogsChunked that found no log
Continue(m, id, ev) ==
    LET fn == m.calls[id].fn
    IN CASE fn = "fetchTokenlist"      -> fetchTokenlist(m, id, ev)
         [] fn = "blockRangeForWindow" -> blockRangeForWindow(m, id, ev)
         [] fn = "getTimeModel"        -> getTimeModel(m, id, ev)
         [] fn = "getMemoTransfers"    -> getMemoTransfers(m, id, ev)
         [] fn = "getFeePayments"      -> getFeePayments(m, id, ev)
         [] fn = "getTotalTransfers"   -> getTotalTransfers(m, id, ev)
         [] fn = "getComplianceEvents" -> getComplianceEvents(m, id, ev)
         [] fn = "getFeeAmmSummary"    -> getFeeAmmSummary(m, id, ev)
         [] fn = "buildDashboard"      -> buildDashboard(m, id, ev)
         [] fn = "warmCache"           -> warmCacheRun(m, id, ev)
         [] fn = "getSponsorshipData"  -> getSponsorshipData(m, id, ev)
         [] fn = "health"              -> health(m, id, ev)
         [] fn = "sendFile"            -> sendFile(m, id)

\* the request i is answered (out: "ok", "empty") or refused; the answer
\* to a request of a call that has settled is dropped, and a getTransaction
\* that fails is caught where it is awaited
Answers(m, i, out) ==
    LET q  == m.reqs[i]
        m1 == [m EXCEPT !.reqs = SubSeq(@, 1, i - 1) \o SubSeq(@, i + 1, Len(@))]
    IN IF q.call = 0 THEN m1
       ELSE IF out = "refused" /\ q.kind # "getTransaction" THEN Settles(m1, q.call, FALSE)
       ELSE Continue(m1, q.call, out)

\* the continuations queued while the task ran
RECURSIVE Drain(_)
Drain(m) ==
    IF m.defer = <<>> THEN m
    ELSE Drain(Continue([m EXCEPT !.defer = Tail(@)], Head(m.defer), "resumed"))

\* a task of the event loop, run to its end
Task(m) == LET d == Drain(m) IN [d EXCEPT !.calls = TrimCalls(@)]

WarmNow ==
    [isWarming |-> isWarming, runs |-> wRuns, skipped |-> wSkipped, now |-> wNow,
     ticks |-> wTicks, cache |-> cache, interval |-> cacheWarmInterval,
     calls |-> wCalls, reqs |-> wReqs, defer |-> <<>>]

WarmBecomes(s) ==
    /\ isWarming' = s.isWarming
    /\ wRuns' = s.runs
    /\ wSkipped' = s.skipped
    /\ wNow' = s.now
    /\ wTicks' = s.ticks
    /\ cache' = s.cache
    /\ now' = s.now
    /\ cacheWarmInterval' = s.interval
    /\ wCalls' = s.calls
    /\ wReqs' = s.reqs
    /\ UNCHANGED <<cOps, cLast>>
    /\ UNCHANGED <<chunkVars, retryVars, dedupVars, estVars, tmVars>>
    /\ UNCHANGED <<sharedVars, aliasVars, btVars>>

\* warmCache() up to its first await that waits
warmCache(s) ==
    IF s.isWarming THEN [s EXCEPT !.skipped = s.skipped + 1]
    ELSE Spawn([s EXCEPT !.isWarming = TRUE,
                         !.runs = Append(s.runs, Run(s.now, "dashboard"))],
               "warmCache", 0, Len(s.runs) + 1)

NextInterval == (wTicks + 1) * CACHE_WARM_INTERVAL_MS

\* setInterval(cleanupExpiredEntries, CLEANUP_INTERVAL_MS), in cache.ts
NextCleanup == (wSweeps + 1) * CLEANUP_INTERVAL_MS

\* the deadlines of the armed timers: the timeouts of the runs, the warm-up
\* interval until clearInterval, the cleanup interval
PendingTimers ==
    {wRuns[r].deadline : r \in {q \in 1..Len(wRuns) : wRuns[q].timer = "armed"}}
        \cup (IF cacheWarmInterval = "set" THEN {NextInterval} ELSE {})
        \cup {NextCleanup}

WarmInit ==
    /\ isWarming = FALSE /\ wRuns = <<>> /\ wSkipped = 0 /\ wNow = 0 /\ wTicks = 0
    /\ cacheWarmInterval = "null"
    /\ wCalls = <<>> /\ wReqs = <<>> /\ wServed = 0 /\ wSweeps = 0
    /\ wRefused = 0 /\ wStalls = 0 /\ wStalling = FALSE /\ wOvertakes = 0

Disturbances == wServed + wRefused + wStalls + wOvertakes

\* the module is loaded: warmCache() is called once, then the interval is set
WInitial ==
    /\ wRuns = <<>> /\ cacheWarmInterval = "null"
    /\ WarmBecomes(Task([warmCache(WarmNow) EXCEPT !.interval = "set"]))
    /\ UNCHANGED <<wServed, wSweeps, wRefused, wStalls, wStalling, wOvertakes>>

\* the interval fires: warmCache()
WInterval ==
    /\ cacheWarmInterval = "set"
    /\ NextInterval <= wNow
    /\ WarmBecomes(Task(warmCache([WarmNow EXCEPT !.ticks = wTicks + 1])))
    /\ UNCHANGED <<wServed, wSweeps, wRefused, wStalls, wStalling, wOvertakes>>

\* SIGTERM arrives: clearInterval(cacheWarmInterval)
WSigterm ==
    /\ cacheWarmInterval = "set"
    /\ WarmBecomes([WarmNow EXCEPT !.interval = "cleared"])
    /\ UNCHANGED <<wServed, wSweeps, wRefused, wStalls, wStalling, wOvertakes>>

\* a run's timeout fires: if (isWarming) isWarming = false
WTimeout ==
    /\ \E r \in 1..Len(wRuns) :
        /\ wRuns[r].timer = "armed"
        /\ wRuns[r].deadline <= wNow
        /\ WarmBecomes([WarmNow EXCEPT !.isWarming = FALSE, !.runs[r].timer = "fired"])
    /\ UNCHANGED <<wServed, wSweeps, wRefused, wStalls, wStalling, wOvertakes>>

\* the cleanup timer of cache.ts fires: cleanupExpiredEntries()
WSweep ==
    /\ NextCleanup <= wNow
    /\ WarmBecomes([WarmNow EXCEPT !.cache = DeleteStale(cache, wNow)])
    /\ wSweeps' = wSweeps + 1
    /\ UNCHANGED <<wServed, wRefused, wStalls, wStalling, wOvertakes>>

\* the routes of the server and the function each handler calls
Routes ==
    {"/api/health", "/api/dashboard", "/api/memo/:memo", "/api/fees", "/api/compliance",
     "*"}

Handler(route) ==
    CASE route = "/api/health"     -> "health"
      [] route = "/api/dashboard"  -> "buildDashboard"
      [] route = "/api/memo/:memo" -> "getMemoTransfers"
      [] route = "/api/fees"       -> "getFeePayments"
      [] route = "/api/compliance" -> "getComplianceEvents"
      [] route = "*"               -> "sendFile"

\* an HTTP request arrives: the route's handler runs up to its await
WRequest ==
    /\ cacheWarmInterval # "null"
    /\ Disturbances < MaxDisturbances
    /\ \E route \in Routes : WarmBecomes(Task(Spawn(WarmNow, Handler(route), 0, 0)))
    /\ wServed' = wServed + 1
    /\ UNCHANGED <<wSweeps, wRefused, wStalls, wStalling, wOvertakes>>

\* getSponsorshipData(DASHBOARD_WINDOW) is called.  analytics.ts exports the
\* function and nothing in the server calls it: the action is no part of
\* NextWarm
WSponsorship ==
    /\ cacheWarmInterval # "null"
    /\ Disturbances < MaxDisturbances
    /\ WarmBecomes(Task(Spawn(WarmNow, "getSponsorshipData", 0, 0)))
    /\ wServed' = wServed + 1
    /\ UNCHANGED <<wSweeps, wRefused, wStalls, wStalling, wOvertakes>>

\* one of the requests out is answered
WAnswer ==
    /\ \E i \in 1..Len(wReqs), out \in {"ok", "empty"} :
        /\ out = "empty" => wReqs[i].kind = "getLogs"
        /\ i > 1 => Disturbances < MaxDisturbances
        /\ WarmBecomes(Task(Answers(WarmNow, i, out)))
        /\ wOvertakes' = IF i > 1 THEN wOvertakes + 1 ELSE wOvertakes
    /\ wStalling' = FALSE
    /\ UNCHANGED <<wServed, wSweeps, wRefused, wStalls>>

\* one of the requests out fails: the network, a status, a body that is
\* not JSON, or withRpcRetry giving up
WRefuse ==
    /\ Disturbances < MaxDisturbances
    /\ \E i \in 1..Len(wReqs) : WarmBecomes(Task(Answers(WarmNow, i, "refused")))
    /\ wRefused' = wRefused + 1
    /\ wStalling' = FALSE
    /\ UNCHANGED <<wServed, wSweeps, wStalls, wOvertakes>>

\* time passes up to the next timer deadline; with requests out the
\* provider is stalling
WPass ==
    /\ wRuns # <<>>
    /\ \A d \in PendingTimers : wNow < d
    /\ \E d \in PendingTimers : d <= MaxWarmNow
    /\ wReqs # <<>> => (wStalling \/ Disturbances < MaxDisturbances)
    /\ WarmBecomes([WarmNow EXCEPT
                       !.now = CHOOSE d \in PendingTimers : \A e \in PendingTimers : d <= e])
    /\ wStalling' = (wReqs # <<>>)
    /\ wStalls' = IF wReqs # <<>> /\ ~wStalling THEN wStalls + 1 ELSE wStalls
    /\ UNCHANGED <<wServed, wSweeps, wRefused, wOvertakes>>

(***************************************************************************)
(* Specifications.                                                         *)
(***************************************************************************)
MoreIdle == SharedInit /\ AliasIdle /\ BtIdle /\ WarmIdle

Init == ChunkInit /\ RetryInit /\ DedupIdle /\ RestIdle /\ MoreIdle

Next == Invoke \/ FetchResolves \/ FetchRejects \/ BackoffElapses

Spec == Init /\ [][Next]_vars

InitRetry == ChunkIdle /\ RetryInit /\ DedupIdle /\ RestIdle /\ MoreIdle

NextRetry == RetryInvoke \/ FnResolves \/ FnRejects \/ SleepElapses

SpecRetry == InitRetry /\ [][NextRetry]_vars

InitDedup == ChunkIdle /\ RetryInit /\ DedupInit /\ RestIdle /\ MoreIdle

NextDedup == DedupOnce \/ DedupTwice

SpecDedup == InitDedup /\ [][NextDedup]_vars

InitCache == ChunkIdle /\ RetryInit /\ DedupIdle /\ CacheInit /\ EstIdle /\ TmIdle /\ MoreIdle

NextCache == CacheSet \/ CacheGet \/ Sweep \/ Tick

SpecCache == InitCache /\ [][NextCache]_vars

InitRange ==
    ChunkIdle /\ RetryInit /\ DedupIdle /\ RangeCacheInit /\ EstInit /\ TmIdle /\ MoreIdle

NextRange == EstCall \/ EstHead \/ EstLatestTs \/ EstSampleTs

SpecRange == InitRange /\ [][NextRange]_vars

InitTime ==
    ChunkIdle /\ RetryInit /\ DedupIdle /\ TimeCacheInit /\ EstIdle /\ TmInit /\ MoreIdle

NextTime == TmCall \/ TmHead \/ TmLatest \/ TmSample \/ TmApply

SpecTime == InitTime /\ [][NextTime]_vars

InitShared ==
    /\ ChunkIdle /\ RetryInit /\ DedupIdle /\ RestIdle
    /\ SharedInit /\ AliasIdle /\ BtIdle /\ WarmIdle

NextShared ==
    \/ \E c \in Callers : GCall(c) \/ GHead(c) \/ GLatest(c) \/ GSample(c)
    \/ GTick

SpecShared == InitShared /\ [][NextShared]_vars

InitAlias ==
    /\ ChunkIdle /\ RetryInit /\ DedupIdle /\ RestIdle
    /\ SharedInit /\ AliasInit /\ BtIdle /\ WarmIdle

NextAlias == ASet \/ AGet \/ AMutate \/ ATick

SpecAlias == InitAlias /\ [][NextAlias]_vars

InitBlockTime ==
    /\ ChunkIdle /\ RetryInit /\ DedupIdle /\ RestIdle
    /\ SharedInit /\ AliasIdle /\ BtInit /\ WarmIdle

NextBlockTime ==
    \/ EstCall \/ EstHeadAns(bHead) \/ EstLatestTsAns(bLatestTs) \/ EstSampleTsAns(bSampleTs)
    \/ TmCall \/ TmHeadAns(bHead) \/ TmLatestAns(bLatestTs) \/ TmSampleAns(bSampleTs)

SpecBlockTime == InitBlockTime /\ [][NextBlockTime]_vars

InitWarm ==
    /\ ChunkIdle /\ RetryInit /\ DedupIdle /\ RestIdle
    /\ SharedInit /\ AliasIdle /\ BtIdle /\ WarmInit

NextWarm ==
    \/ WInitial \/ WInterval \/ WSigterm \/ WTimeout \/ WSweep
    \/ WRequest \/ WAnswer \/ WRefuse
    \/ WPass

SpecWarm == InitWarm /\ [][NextWarm]_vars

\* the server together with a caller of getSponsorshipData
NextAnalytics == NextWarm \/ WSponsorship

SpecAnalytics == InitWarm /\ [][NextAnalytics]_vars

(***************************************************************************)
(* Observations used by the properties.                                    *)
(***************************************************************************)
Tasks == 1..Len(tasks)

Width(t) == tasks[t].end - tasks[t].start + 1

\* upstream calls that have started and not yet settled
InFlight == Cardinality({t \in Tasks : tasks[t].st = "call"})

\* leaf fetches: tasks whose own upstream call returned records
Leaves == {t \in Tasks : tasks[t].rpc = "ok"}

\* no upstream call is pending and no backoff timer is armed: nothing more
\* can happen in this invocation
Quiescent == call # "idle" /\ \A t \in Tasks : tasks[t].st \notin {"call", "sleep"}

Settled == call \in {"returned", "rejected"}

\* the failure the task's own upstream calls ended with (not one handed up
\* by a sub-task)
OwnFailure(t) == tasks[t].st = "failed" /\ tasks[t].kids = <<>>

MatchesRetrySignature(err) ==
    err.sigs \cap (RateLimitSignatures \cup TransientSignatures) # {}

RECURSIVE LeafRecs(_)
LeafRecs(t) ==
    IF tasks[t].kids = <<>> THEN tasks[t].recs
    ELSE IF Len(tasks[t].kids) = 1 THEN LeafRecs(tasks[t].kids[1])
    ELSE LeafRecs(tasks[t].kids[1]) \o LeafRecs(tasks[t].kids[2])

RECURSIVE CollectedFrom(_)
CollectedFrom(t) ==
    IF t > Len(tasks) THEN <<>>
    ELSE IF tasks[t].parent = 0 THEN LeafRecs(t) \o CollectedFrom(t + 1)
    ELSE CollectedFrom(t + 1)

\* the records of the leaf fetches in collection order: chunks in ascending
\* range order, left half before right half
Collected == CollectedFrom(1)

Identity(l) == <<l.transactionHash, l.logIndex>>

(***************************************************************************)
(* C1  Coverage: when getLogsChunked has returned, every block number of   *)
(* [fromBlock, toBlock] lies in the range of exactly one leaf fetch.       *)
(* The code fetches a provider-suggested range in place of the chunk and   *)
(* never fetches the blocks of the chunk outside it.                       *)
(***************************************************************************)
C1_Coverage ==
    call = "returned" =>
        \A b \in fromBlock..toBlock :
            Cardinality({t \in Leaves : tasks[t].start <= b /\ b <= tasks[t].end}) = 1

(***************************************************************************)
(* C2  Split termination: against a fetch capability that reports too many *)
(* results for every range wider than the floor, the invocation settles:   *)
(* it is never left with nothing in flight and its promise still pending.  *)
(* The code keeps a slot of the limiter while it awaits its halves, so     *)
(* four nested splits leave every slot with a task awaiting queued halves. *)
(***************************************************************************)
WideAlwaysTooLarge ==
    \A t \in Tasks :
        (Width(t) > minChunk /\ tasks[t].st \notin {"queued", "call"}) =>
            /\ tasks[t].rpc = "threw"
            /\ Len(tasks[t].kids) = 2
            /\ ~tasks[t].retried

C2_SplitTerminates == (WideAlwaysTooLarge /\ Quiescent) => Settled

(***************************************************************************)
(* C3  Concurrency bound: at most 4 upstream calls are in flight at any    *)
(* time of an invocation, whatever the number of chunks, split halves and  *)
(* suggested-range retries.                                                *)
(***************************************************************************)
C3_ConcurrencyBound == InFlight <= 4 /\ activeCount <= 4

C3_Witness == InFlight = 4 /\ activeCount = 4 /\ Len(queue) > 0

(***************************************************************************)
(* C4  All-or-nothing: as soon as any chunk or sub-chunk has failed, the   *)
(* invocation is rejected with the failure of a failed chunk and has       *)
(* returned no record; it stays so while the other chunks complete.        *)
(***************************************************************************)
C4_Rejected ==
    (\E t \in Tasks : tasks[t].st = "failed") =>
        /\ call = "rejected"
        /\ output = <<>>
        /\ \E t \in Tasks : OwnFailure(t) /\ tasks[t].err = callErr

C4_AllOrNothing ==
    /\ []C4_Rejected
    /\ [][call = "rejected" => (call' = "rejected" /\ callErr' = callErr /\ output' = <<>>)]_vars

C4_Witness ==
    /\ call = "rejected"
    /\ Quiescent
    /\ \E t \in Tasks : tasks[t].st = "done" /\ tasks[t].recs # <<>> /\ tasks[t].parent = 0
    /\ \E t \in Tasks : tasks[t].st = "failed" /\ tasks[t].parent # 0

(***************************************************************************)
(* C5  Absorption: the invocation rejects only if (a) an upstream call     *)
(* failed with a failure that is neither rate-limit, transient, suggested  *)
(* range nor too large, (b) a chunk no wider than the floor reported too   *)
(* large, or (c) a retry loop used up its 20 attempts; in every other      *)
(* execution it returns records.  The second half fails where the          *)
(* invocation is left pending for ever (see C2).                           *)
(***************************************************************************)
CauseFatal ==
    \E t \in Tasks :
        /\ OwnFailure(t) /\ tasks[t].rpc = "threw"
        /\ ~MatchesRetrySignature(tasks[t].err)
        /\ tasks[t].err.rfrom < 0
        /\ TooLargeSignature \notin tasks[t].err.sigs

CauseFloor ==
    \E t \in Tasks :
        OwnFailure(t) /\ Width(t) <= minChunk /\ TooLargeSignature \in tasks[t].err.sigs

CauseExhausted == \E t \in Tasks : tasks[t].rpc = "exhausted"

C5_Absorption ==
    /\ call = "rejected" => (CauseFatal \/ CauseFloor \/ CauseExhausted)
    /\ (Quiescent /\ ~(CauseFatal \/ CauseFloor \/ CauseExhausted)) => call = "returned"

(***************************************************************************)
(* C6  Deduplication: the returned list holds no two records with the same *)
(* (transactionHash, logIndex); every identity among the collected leaf    *)
(* records appears in it exactly once, and the record kept for it is the   *)
(* first one with that identity in collection order.                       *)
(***************************************************************************)
FirstWith(list, id) ==
    list[CHOOSE k \in 1..Len(list) :
            /\ Identity(list[k]) = id
            /\ \A j \in 1..(k - 1) : Identity(list[j]) # id]

C6_Deduplicated ==
    call = "returned" =>
        /\ \A i, j \in 1..Len(output) :
               Identity(output[i]) = Identity(output[j]) => i = j
        /\ \A k \in 1..Len(Collected) :
               \E i \in 1..Len(output) : Identity(output[i]) = Identity(Collected[k])
        /\ \A i \in 1..Len(output) :
               /\ \E k \in 1..Len(Collected) : Identity(Collected[k]) = Identity(output[i])
               /\ output[i] = FirstWith(Collected, Identity(output[i]))

C6_Witness ==
    /\ call = "returned"
    /\ 0 < Len(output) /\ Len(output) < Len(Collected)
    /\ \E t \in Tasks : Len(tasks[t].kids) = 2

(***************************************************************************)
(* C7  Idempotent dedup: applying the deduplication step to its own result *)
(* gives that result again.                                                *)
(***************************************************************************)
C7_Idempotent == dPc = "twice" => dTwice = dOnce

C7_Witness == dPc = "twice" /\ Len(dIn) = MaxListLen /\ Len(dOnce) = 1

(***************************************************************************)
(* C8  Retry budget: one withRpcRetry call invokes the operation at most   *)
(* 20 times; when the 20th invocation too failed with a rate-limit or      *)
(* transient failure, the call throws that invocation's failure and        *)
(* invokes nothing more.                                                   *)
(***************************************************************************)
C8_RetryBudget ==
    /\ rCalls <= 20
    /\ (rPc = "threw" /\ MatchesRetrySignature(rThrown)) =>
           /\ rCalls = 20
           /\ rThrown.id = 20
    /\ rAttempt = 20 => rPc = "threw"

C8_Witness == rPc = "threw" /\ rCalls = 20 /\ MatchesRetrySignature(rThrown)

(***************************************************************************)
(* C9  Fatal is never retried: a failure matching neither the rate-limit   *)
(* nor the transient signatures is rethrown at once, at any attempt: no    *)
(* backoff wait follows it and no further invocation is made.              *)
(***************************************************************************)
C9_FatalNeverRetried ==
    /\ rPc = "sleep" => MatchesRetrySignature(rLastErr)
    /\ (rLastErr # NoFailure /\ ~MatchesRetrySignature(rLastErr)) =>
           /\ rPc = "threw"
           /\ rThrown = rLastErr
           /\ rThrown.id = rCalls
           /\ rSleeps = rCalls - 1

C9_Witness == rPc = "threw" /\ ~MatchesRetrySignature(rThrown) /\ rCalls > 1

(***************************************************************************)
(* C10  Backoff monotonicity: over the attempts 0..19 of a call the        *)
(* computed backoff never decreases and never exceeds 10000 ms.            *)
(***************************************************************************)
C10_BackoffMonotone == [][rBackoff' >= rBackoff /\ rBackoff' <= 10000]_vars

C10_Witness == rPc = "sleep" /\ rAttempt = 19 /\ rBackoff = 10000 /\ rWait = 30000

(***************************************************************************)
(* Observations on the catch block of fetchRange.                          *)
(***************************************************************************)
CarriesRange(err) == parseRetryRange(err) # <<>>

\* the failure the task's catch block handled reported too many results and
\* suggested no range
CaughtTooLarge(t) ==
    TooLargeSignature \in tasks[t].caught.sigs /\ ~CarriesRange(tasks[t].caught)

ChildrenOf(t) == {u \in Tasks : tasks[u].parent = t}

(***************************************************************************)
(* C11  Suggested-range correction: after an upstream call of a chunk      *)
(* failed with a message carrying "retry with the range A-B", the next     *)
(* upstream call made for the chunk is for [A,B]: no backoff wait and no   *)
(* second call for the original range comes first, and the chunk is not    *)
(* split, also when the message matches a retry or the too-large           *)
(* signature as well.  In the code withRpcRetry sees the failure first: a  *)
(* message that also matches a rate-limit or transient signature is        *)
(* retried over the original range before the suggestion is looked at.     *)
(***************************************************************************)
C11_SuggestedRangeFirst ==
    \A t \in Tasks :
        /\ tasks[t].st = "sleep" => ~CarriesRange(tasks[t].lastErr)
        /\ CarriesRange(tasks[t].caught) =>
               /\ tasks[t].rpc = "threw"
               /\ Len(tasks[t].kids) = 1
               /\ tasks[tasks[t].kids[1]].start = tasks[t].caught.rfrom
               /\ tasks[tasks[t].kids[1]].end = tasks[t].caught.rto

(***************************************************************************)
(* C12  Split on too-large: a chunk wider than the floor whose fetch       *)
(* reported "query exceeds max results" makes no further upstream call of  *)
(* its own; it has exactly two sub-chunks [start,mid] and [mid+1,end],     *)
(* both non-empty, both strictly narrower than the chunk, adjacent, and    *)
(* together covering exactly [start,end].                                  *)
(***************************************************************************)
C12_SplitInTwo ==
    \A t \in Tasks :
        (CaughtTooLarge(t) /\ Width(t) > minChunk) =>
            /\ tasks[t].st \in {"waitSplit", "done", "failed"}
            /\ tasks[t].rpc = "threw"
            /\ Len(tasks[t].kids) = 2
            /\ ChildrenOf(t) = {tasks[t].kids[1], tasks[t].kids[2]}
            /\ LET l == tasks[tasks[t].kids[1]]
                   r == tasks[tasks[t].kids[2]]
               IN /\ l.start = tasks[t].start
                  /\ r.end = tasks[t].end
                  /\ r.start = l.end + 1
                  /\ l.start <= l.end
                  /\ r.start <= r.end
                  /\ l.end - l.start + 1 < Width(t)
                  /\ r.end - r.start + 1 < Width(t)

C12_Witness ==
    \E t \in Tasks :
        /\ CaughtTooLarge(t) /\ Width(t) = 2 * minChunk + 1
        /\ tasks[t].st = "done"
        /\ \A u \in ChildrenOf(t) : tasks[u].rpc = "ok"

(***************************************************************************)
(* C13  Floor rule: a chunk at most 200 blocks wide whose fetch reported   *)
(* "query exceeds max results" is never split; it fails with that failure  *)
(* and the invocation is rejected, with that failure unless the failure    *)
(* of another chunk rejected it before.                                    *)
(***************************************************************************)
C13_FloorEscalates ==
    \A t \in Tasks :
        (CaughtTooLarge(t) /\ Width(t) <= 200) =>
            /\ ChildrenOf(t) = {}
            /\ tasks[t].kids = <<>>
            /\ tasks[t].st = "failed"
            /\ tasks[t].err = tasks[t].caught
            /\ call = "rejected"
            /\ \/ callErr = tasks[t].caught
               \/ \E u \in Tasks \ {t} : OwnFailure(u) /\ tasks[u].err = callErr

C13_Witness ==
    \E t \in Tasks :
        /\ CaughtTooLarge(t) /\ Width(t) = 200 /\ tasks[t].parent # 0
        /\ call = "rejected" /\ callErr = tasks[t].caught
        /\ \A u \in Tasks \ {t} : ~OwnFailure(u)

(***************************************************************************)
(* C14  Cache expiry: cacheGet never returns the value of an entry whose   *)
(* expiresAt has passed; a cacheGet that finds such an entry returns       *)
(* undefined and the entry is gone from the cache when it returns, so the  *)
(* size no longer counts it.                                               *)
(***************************************************************************)
C14_NoExpiredHit ==
    cLast.op = "get" =>
        /\ cLast.ret # Undefined =>
               /\ cLast.found # NoEntry
               /\ cLast.ret = cLast.found.value
               /\ now <= cLast.found.expiresAt
        /\ (cLast.found # NoEntry /\ now > cLast.found.expiresAt) =>
               /\ cLast.ret = Undefined
               /\ cLast.key \notin Keys(cache)
               /\ Len(cache) = cLast.before - 1

\* set with ttl 10 ms, get 20 ms later
C14_Witness ==
    /\ cLast.op = "get" /\ cLast.key = CacheMax
    /\ cLast.found.value >= 1000
    /\ now = cLast.found.expiresAt + 10
    /\ cLast.ret = Undefined
    /\ cLast.key \notin Keys(cache)

(***************************************************************************)
(* C15  Cache capacity: the cache never holds more than 500 entries; a     *)
(* cacheSet of a new key into a full cache removes exactly the least       *)
(* recently used entry, whatever its expiresAt, and a cacheSet into a      *)
(* cache with room, or of a key already there, removes nothing.            *)
(***************************************************************************)
C15_Capacity ==
    /\ Len(cache) <= 500
    /\ cLast.op = "set" =>
           /\ cLast.key \in Keys(cache)
           /\ IF cLast.before = 500 /\ cLast.found = NoEntry
              THEN /\ cLast.evicted = {cLast.lru.key}
                   /\ Len(cache) = 500
              ELSE cLast.evicted = {}

\* the entry evicted was live while an expired entry stayed
C15_Witness ==
    /\ cLast.op = "set" /\ cLast.before = 500 /\ cLast.found = NoEntry
    /\ cLast.evicted = {cLast.lru.key}
    /\ now <= cLast.lru.expiresAt
    /\ \E i \in 1..Len(cache) : now > cache[i].expiresAt

(***************************************************************************)
(* C16  Range estimation capping: blockRangeForWindow returns toBlock =    *)
(* head and fromBlock = max(max(0, head - ceil(windowSeconds / avg)),      *)
(* max(0, head - maxScanBlocks)), avg being the block time it computed     *)
(* and the division and ceil being those of doubles; head 100000, avg 2,   *)
(* window 3600, cap 1000 give fromBlock 99000.  The ceil of the double     *)
(* quotient is the ceiling of the exact quotient w * den / num, or one     *)
(* above it when the exact quotient is an integer (3600 / 0.288 gives      *)
(* 12501).                                                                 *)
(***************************************************************************)
IsCeilOf(n, w, avg) == n * avg[1] >= w * avg[2] /\ (n - 1) * avg[1] < w * avg[2]

\* n is the ceiling of w / avg, or the exact quotient plus one
IsCeilNear(n, w, avg) == IsCeilOf(n, w, avg) \/ (n - 1) * avg[1] = w * avg[2]

EstAvgSeen == EstAvg(eLatestTs - eSampleTs, eHead - SampleBlock(eHead))

C16_CapWins ==
    ePc = "done" =>
        LET estBlocks == CeilDiv(eWindow, EstAvgSeen)
        IN /\ eOut.toBlock = eHead
           /\ IsCeilNear(estBlocks, eWindow, EstAvgSeen)
           /\ eOut.fromBlock = Max(Max(0, eHead - estBlocks), Max(0, eHead - eMaxScan))
           /\ (eHead = 100000 /\ EstAvgSeen = Frac(576, 2000) /\ eWindow = 3600
                   /\ eMaxScan = 20000) => eOut.fromBlock = 87499

C16_Witness ==
    /\ ePc = "done" /\ eHead = 100000 /\ EstAvgSeen = Frac(4000, 2000)
    /\ eWindow = 3600 /\ eMaxScan = 1000
    /\ eOut.fromBlock = 99000

(***************************************************************************)
(* C17  Range well-formedness: the range blockRangeForWindow returns has   *)
(* 0 <= fromBlock <= toBlock, toBlock is the head the provider answered    *)
(* in this call, and toBlock - fromBlock <= maxScanBlocks.                 *)
(***************************************************************************)
C17_WellFormed ==
    ePc = "done" =>
        /\ 0 <= eOut.fromBlock
        /\ eOut.fromBlock <= eOut.toBlock
        /\ eOut.toBlock = eHead
        /\ eOut.toBlock - eOut.fromBlock <= eMaxScan

\* decreasing timestamps, a window wider than the cap
C17_Witness ==
    /\ ePc = "done" /\ eLatestTs < eSampleTs
    /\ eHead > eMaxScan /\ eMaxScan > 0
    /\ eOut.toBlock - eOut.fromBlock = eMaxScan

(***************************************************************************)
(* C18  Timestamp linearity: applyApproxTimestamps gives every item the    *)
(* timestamp referenceTimestamp - round(max(0, referenceBlock -            *)
(* blockNumber) * avgSecondsPerBlock); an item at or above the reference   *)
(* block gets referenceTimestamp.  With reference block 200 at 1000 and    *)
(* 1 s per block, block 150 gets 950 and block 200 gets 1000.  The         *)
(* product and round are those of doubles: the result is the integer       *)
(* nearest to the exact product d * num / den, and either neighbour when   *)
(* the exact product lies half way (625 * 0.204 gives 127).                *)
(***************************************************************************)
\* r is an integer nearest to d * avg
IsRoundNear(r, d, avg) ==
    /\ 2 * r * avg[2] - avg[2] <= 2 * d * avg[1]
    /\ 2 * d * avg[1] <= 2 * r * avg[2] + avg[2]

C18_Linear ==
    mPc = "applied" =>
        /\ Len(mStamps) = Len(mItems)
        /\ \A i \in 1..Len(mItems) :
               LET d == Max(0, mModel.latestBlock - mItems[i])
               IN /\ mStamps[i] = mModel.latestTs - RoundMul(d, mModel.avgSecondsPerBlock)
                  /\ IsRoundNear(mModel.latestTs - mStamps[i], d, mModel.avgSecondsPerBlock)
                  /\ mItems[i] >= mModel.latestBlock => mStamps[i] = mModel.latestTs
                  /\ (d = 625 /\ mModel.avgSecondsPerBlock = Frac(408, 2000)) =>
                         mStamps[i] = mModel.latestTs - 127

C18_Witness ==
    /\ mPc = "applied"
    /\ mModel.latestBlock = 200 /\ mModel.latestTs = 1000
    /\ mModel.avgSecondsPerBlock = Frac(200, 200)
    /\ \E i, j, k \in 1..Len(mItems) :
           /\ mItems[i] = 150 /\ mStamps[i] = 950
           /\ mItems[j] = 200 /\ mStamps[j] = 1000
           /\ mItems[k] = 205 /\ mStamps[k] = 1000

(***************************************************************************)
(* C19  TimeModel invariant: every model getTimeModel builds has           *)
(* avgSecondsPerBlock >= 0.2, and the sample block it was built from       *)
(* satisfies 0 <= sampleBlock <= referenceBlock.                           *)
(***************************************************************************)
C19_ModelInvariant ==
    mPc \in {"built", "cached", "applied"} =>
        /\ 5 * mModel.avgSecondsPerBlock[1] >= mModel.avgSecondsPerBlock[2]
        /\ mModel.avgSecondsPerBlock[2] > 0
        /\ 0 <= TmSampleBlock(mModel.latestBlock)
        /\ TmSampleBlock(mModel.latestBlock) <= mModel.latestBlock

\* equal timestamps over a full sample window: the floor applies
C19_Witness ==
    /\ mPc = "built" /\ mLatest = 100000 /\ mLatestTs = mSampleTs
    /\ mModel.avgSecondsPerBlock = Frac(1, 5)

(***************************************************************************)
(* C20  TimeModel construction formula: the model's avgSecondsPerBlock is  *)
(* max(0.2, (referenceTimestamp - sampleTimestamp) / max(1, referenceBlock *)
(* - sampleBlock)).  The code takes max(1, latestTs - sampleTs) as the     *)
(* numerator and answers 1 when the two blocks are the same, so it gives   *)
(* another value for a head below 5 with equal timestamps and for head 0.  *)
(***************************************************************************)
C20_Formula ==
    mPc = "built" =>
        LET stated == FracMax(Frac(1, 5),
                               Frac(mLatestTs - mSampleTs,
                                    Max(1, mLatest - TmSampleBlock(mLatest))))
            built   == mModel.avgSecondsPerBlock
        IN built[1] * stated[2] = stated[1] * built[2]

(***************************************************************************)
(* C21  Shared model under bursts: of the getTimeModel calls issued within *)
(* 30 s of one another, overlapping ones on an empty cache included, only  *)
(* one samples the provider (one head request, two block requests) and     *)
(* all return the model it built.  The code stores the model only when     *)
(* the sampling has finished and remembers no sampling in progress, so a   *)
(* call issued meanwhile samples again.                                    *)
(***************************************************************************)
Apart(c, d) ==
    IF gStart[c] >= gStart[d] THEN gStart[c] - gStart[d] ELSE gStart[d] - gStart[c]

Issued == {c \in Callers : gPc[c] # "idle"}

C21_SharedModel ==
    /\ \A c, d \in Issued :
           (c # d /\ gMiss[c] /\ gMiss[d]) => Apart(c, d) > 30000
    /\ (\A c, d \in Issued : Apart(c, d) <= 30000) => (gHeadQ <= 1 /\ gBlockQ <= 2)
    /\ \A c, d \in Issued :
           (gPc[c] = "done" /\ gPc[d] = "done" /\ Apart(c, d) <= 30000) =>
               gRet[c] = gRet[d]

(***************************************************************************)
(* C22  Timeout is Transient: a call that failed because the transport's   *)
(* 30 s timeout passed is classified transient and followed by a backoff   *)
(* wait and another invocation; withRpcRetry throws it only when all 20    *)
(* attempts are used.  The message of the transport's timeout failure      *)
(* matches none of the signatures isTransientRpcError looks for, so the    *)
(* code rethrows it at once.                                               *)
(***************************************************************************)
IsTimeout(err) == err.sigs \cap TimeoutSignatures # {}

C22_TimeoutRetried ==
    /\ IsTimeout(rLastErr) => isTransientRpcError(rLastErr)
    /\ (rPc = "threw" /\ IsTimeout(rThrown)) => rCalls = 20

(***************************************************************************)
(* C23  No exposure by reference: what cacheGet returns for a live key has *)
(* the content the value had when cacheSet stored it, whatever callers did *)
(* since to objects they passed to cacheSet or received from cacheGet.     *)
(* The cache stores and returns the caller's own object, so a caller's     *)
(* assignment shows in every later cacheGet.                               *)
(***************************************************************************)
C23_NoExposure ==
    (hGot # NoGot /\ hGot.ref # Undefined) => hGot.seen = hGot.stored

(***************************************************************************)
(* C24  Progress without deadlock: no reachable state has all 4 permits    *)
(* held by tasks that wait for sub-tasks (split halves, suggested-range    *)
(* retries) while tasks they wait for sit in the limiter's queue.  Each    *)
(* fetchRange body keeps its permit while it awaits the fetchRange calls   *)
(* it made, and those go through the same limiter, so a wide range that    *)
(* keeps answering too-large fills the 4 permits with waiting parents.     *)
(***************************************************************************)
PermitHolders == {t \in Tasks : tasks[t].st \in {"call", "sleep", "waitRetry", "waitSplit"}}

AwaitsSubTasks(t) == tasks[t].st \in {"waitRetry", "waitSplit"}

QueuedUnder(t) == \E u \in Tasks : tasks[u].st = "queued" /\ tasks[u].parent = t

C24_NoPermitDeadlock ==
    ~ /\ Cardinality(PermitHolders) = 4
      /\ \A t \in PermitHolders : AwaitsSubTasks(t)
      /\ \E t \in PermitHolders : QueuedUnder(t)
      /\ queue # <<>>

(***************************************************************************)
(* C25  Initial partition: for fromBlock <= toBlock the chunks handed to   *)
(* the limiter when getLogsChunked is called are contiguous and do not     *)
(* overlap, start at fromBlock and end exactly at toBlock; every chunk but *)
(* the last is 5000 blocks wide and the last between 1 and 5000.  For      *)
(* fromBlock > toBlock there is no chunk, no upstream call is made and the *)
(* invocation returns the empty list.                                      *)
(***************************************************************************)
InitialChunks == Cardinality(TopTasks(tasks))

C25_InitialPartition ==
    call # "idle" =>
        LET n == InitialChunks
        IN /\ TopTasks(tasks) = 1..n
           /\ fromBlock > toBlock =>
                 tasks = <<>> /\ InFlight = 0 /\ call = "returned" /\ output = <<>>
           /\ fromBlock <= toBlock =>
                 /\ n >= 1
                 /\ tasks[1].start = fromBlock
                 /\ tasks[n].end = toBlock
                 /\ \A i \in 1..(n - 1) :
                        Width(i) = 5000 /\ tasks[i + 1].start = tasks[i].end + 1
                 /\ Width(n) >= 1 /\ Width(n) <= 5000

C25_Witness ==
    /\ call = "running" /\ fromBlock = 0 /\ toBlock = 20000
    /\ InitialChunks = 5 /\ Width(4) = 5000 /\ Width(5) = 1
    /\ tasks[5].st = "queued"

(***************************************************************************)
(* C26  Permit discipline: the limiter's count of held permits is the      *)
(* number of chunk tasks that have started and not completed, so a task    *)
(* holds one permit from its start, through its upstream calls and backoff *)
(* waits, until it completes with records or with a failure; a task still  *)
(* queued has issued no upstream call; once every task of the invocation   *)
(* has completed, no permit is held.                                       *)
(***************************************************************************)
Started == {t \in Tasks : tasks[t].st \notin {"queued", "done", "failed"}}

Completed == {t \in Tasks : tasks[t].st \in {"done", "failed"}}

C26_PermitDiscipline ==
    /\ activeCount = Cardinality(Started)
    /\ \A t \in Tasks :
          /\ tasks[t].st \in {"call", "sleep"} => t \in Started /\ activeCount >= 1
          /\ tasks[t].st = "queued" =>
                tasks[t].rpc = "pending" /\ ~tasks[t].retried /\ tasks[t].attempt = 0
    /\ Completed = Tasks => activeCount = 0

C26_Witness ==
    /\ call = "rejected" /\ Len(tasks) >= 5 /\ Completed = Tasks
    /\ \E t \in Tasks : tasks[t].st = "failed" /\ tasks[t].retried
    /\ \E t \in Tasks : tasks[t].st = "done"
    /\ activeCount = 0

(***************************************************************************)
(* C27  Timestamp monotonicity: under a model whose avgSecondsPerBlock is  *)
(* at least 0.2, applyApproxTimestamps gives any two items with block      *)
(* numbers b1 <= b2 timestamps t1 <= t2, and gives no item a timestamp     *)
(* above the model's latestTs.                                             *)
(***************************************************************************)
C27_Monotone ==
    (mPc = "applied" /\ FracGeq(mModel.avgSecondsPerBlock, Frac(1, 5))) =>
        /\ \A i, j \in 1..Len(mItems) :
               mItems[i] <= mItems[j] => mStamps[i] <= mStamps[j]
        /\ \A i \in 1..Len(mItems) : mStamps[i] <= mModel.latestTs

C27_Witness ==
    /\ mPc = "applied"
    /\ mModel.latestBlock = 2001
    /\ mModel.avgSecondsPerBlock = Frac(1, 5)
    /\ \E i, j, k \in 1..Len(mItems) :
           /\ mItems[i] < mItems[j] /\ mStamps[i] < mStamps[j]
           /\ mItems[j] < mItems[k] /\ mStamps[j] = mStamps[k]
           /\ mStamps[k] = mModel.latestTs

(***************************************************************************)
(* C28  Same block-time computation in both places: given the same head,   *)
(* the same sample block and the same two timestamps, blockRangeForWindow  *)
(* and getTimeModel compute the same avgSecondsPerBlock.  getTimeModel     *)
(* raises the timestamp difference to at least 1 before dividing,          *)
(* blockRangeForWindow does not.                                           *)
(***************************************************************************)
C28_SameBlockTime ==
    (ePc = "done" /\ mPc = "built") =>
        /\ eHead = mModel.latestBlock /\ eLatestTs = mLatestTs /\ eSampleTs = mSampleTs
        /\ EstAvgSeen[1] * mModel.avgSecondsPerBlock[2]
               = mModel.avgSecondsPerBlock[1] * EstAvgSeen[2]

(***************************************************************************)
(* C29  Background sweep: a run of cleanupExpiredEntries removes every     *)
(* entry whose expiresAt has passed, read again or not, and leaves every   *)
(* live entry as it was, value and expiresAt; right after it no stored     *)
(* entry is expired.                                                       *)
(***************************************************************************)
SweepStep ==
    LET live == {i \in 1..Len(cache) : now <= cache[i].expiresAt}
        kept == {cache[i] : i \in live}
    IN /\ now' = now
       /\ Len(cache') = Cardinality(live)
       /\ Cardinality(Keys(cache')) = Len(cache')
       /\ \A j \in 1..Len(cache') :
              cache'[j] \in kept /\ now <= cache'[j].expiresAt

C29_Sweep == [][cLast'.op = "sweep" => SweepStep]_vars

\* 249 of 499 entries had expired, none of them read since it was stored
C29_Witness ==
    /\ cLast.op = "sweep" /\ cLast.before = CacheMax - 1
    /\ now = 20 /\ Len(cache) = 250
    /\ {2, 4} \subseteq cLast.evicted
    /\ \A i \in 1..Len(cache) : cache[i] = Prefilled(CacheMax - 1)[cache[i].key]

(***************************************************************************)
(* C30  Non-overlapping warm-ups: at most one warmCache run is in progress *)
(* at any time, and a warm-up the interval triggers while an earlier one   *)
(* has not finished is skipped, however long a run lasts.  The timeout     *)
(* resets isWarming after 2 minutes while the run goes on, and a finishing *)
(* run resets it while a later run goes on, so the next interval starts    *)
(* another run beside it.                                                  *)
(***************************************************************************)
InProgress == {r \in 1..Len(wRuns) : wRuns[r].pc # "finished"}

C30_NoOverlap == Cardinality(InProgress) <= 1

====
